---- MODULE Spec2Model ----
(***************************************************************************)
(* A model of as-xmldata.c: the AppStream XML reader/writer (AsXMLData).   *)
(*                                                                         *)
(* Strings are TLA+ strings.  A C string pointer that is NULL is the value *)
(* NULL below.  An XML document is the tree libxml2 builds for it: element *)
(* and text nodes, each element with an ordered attribute list.            *)
(***************************************************************************)
EXTENDS Integers, Sequences, FiniteSets, TLC

VARIABLES priv, mem, op, data, fromXml, cptsIn, ret, error, xmlstr

vars == <<priv, mem, op, data, fromXml, cptsIn, ret, error, xmlstr>>

(***************************************************************************)
(* Bounds of the model.                                                    *)
(***************************************************************************)
MaxPriority == 1
MaxChildren == 3
MaxCptsOut == 2

(***************************************************************************)
(* C strings.                                                              *)
(***************************************************************************)
NULL == "<NULL>"

g_strcmp0(a, b) == IF a = b THEN 0 ELSE 1

as_str_empty(s) == s = NULL \/ s = ""

CharAt(s, i) == SubSeq(s, i, i)

IsSpace(c) == c \in {" ", "\n", "\t", "\r"}

RECURSIVE StripLeft(_)
StripLeft(s) ==
    IF Len(s) > 0 /\ IsSpace(CharAt(s, 1)) THEN StripLeft(Tail(s)) ELSE s

RECURSIVE StripRight(_)
StripRight(s) ==
    IF Len(s) > 0 /\ IsSpace(CharAt(s, Len(s)))
    THEN StripRight(SubSeq(s, 1, Len(s) - 1))
    ELSE s

g_strstrip(s) == IF s = NULL THEN NULL ELSE StripRight(StripLeft(s))

RECURSIVE FindChar(_, _, _)
FindChar(s, c, i) ==
    IF i > Len(s) THEN 0
    ELSE IF CharAt(s, i) = c THEN i
    ELSE FindChar(s, c, i + 1)

(* strv[0] of g_strsplit (s, "_", 0): NULL for the empty string *)
StrsplitFirst(s, c) ==
    IF s = "" THEN NULL
    ELSE IF FindChar(s, c, 1) = 0 THEN s
    ELSE SubSeq(s, 1, FindChar(s, c, 1) - 1)

DigitVal(c) ==
    CASE c = "0" -> 0 [] c = "1" -> 1 [] c = "2" -> 2 [] c = "3" -> 3
      [] c = "4" -> 4 [] c = "5" -> 5 [] c = "6" -> 6 [] c = "7" -> 7
      [] c = "8" -> 8 [] c = "9" -> 9 [] OTHER -> -1

RECURSIVE DigitsValue(_, _)
DigitsValue(s, acc) ==
    IF Len(s) = 0 \/ DigitVal(CharAt(s, 1)) < 0 THEN acc
    ELSE DigitsValue(Tail(s), acc * 10 + DigitVal(CharAt(s, 1)))

(* g_ascii_strtoll (s, NULL, 10): leading space, optional sign, digits *)
g_ascii_strtoll(s) ==
    LET t == StripLeft(s) IN
    IF Len(t) > 0 /\ CharAt(t, 1) = "-" THEN 0 - DigitsValue(Tail(t), 0)
    ELSE IF Len(t) > 0 /\ CharAt(t, 1) = "+" THEN DigitsValue(Tail(t), 0)
    ELSE DigitsValue(t, 0)

DigitChar(d) == SubSeq("0123456789", d + 1, d + 1)

RECURSIVE NatToStr(_)
NatToStr(n) == IF n < 10 THEN DigitChar(n) ELSE NatToStr(n \div 10) \o DigitChar(n % 10)

(* printf ("%i") / ("%ld") *)
IntToStr(n) == IF n < 0 THEN "-" \o NatToStr(0 - n) ELSE NatToStr(n)

(***************************************************************************)
(* The libxml2 tree.                                                       *)
(***************************************************************************)
Attr(n, v) == [name |-> n, value |-> v, ns |-> ""]

(* an xml:lang attribute of a parsed document: xmlGetProp (node, "lang") *)
(* finds it, whatever its namespace                                      *)
LangAttr(v) == [name |-> "lang", value |-> v, ns |-> "xml"]

Elem(name, attrs, children) ==
    [type |-> "element", name |-> name, attrs |-> attrs, content |-> "",
     children |-> children]

Text(s) ==
    [type |-> "text", name |-> "text", attrs |-> <<>>, content |-> s,
     children |-> <<>>]

(* an element holding one text node, as xmlNewTextChild builds it *)
TextElem(name, attrs, s) == Elem(name, attrs, IF s = NULL THEN <<>> ELSE <<Text(s)>>)

RECURSIVE AttrLookup(_, _)
AttrLookup(attrs, name) ==
    IF attrs = <<>> THEN NULL
    ELSE IF Head(attrs).name = name THEN Head(attrs).value
    ELSE AttrLookup(Tail(attrs), name)

xmlGetProp(node, name) == AttrLookup(node.attrs, name)

RECURSIVE xmlNodeGetContent(_)
RECURSIVE ContentOfList(_)
ContentOfList(nodes) ==
    IF nodes = <<>> THEN ""
    ELSE xmlNodeGetContent(Head(nodes)) \o ContentOfList(Tail(nodes))

xmlNodeGetContent(node) ==
    IF node.type = "text" THEN node.content ELSE ContentOfList(node.children)

as_xmldata_get_node_value(node) == xmlNodeGetContent(node)

(***************************************************************************)
(* The private state of an AsXMLData instance.                             *)
(***************************************************************************)
UPSTREAM == "AS_PARSER_MODE_UPSTREAM"
DISTRO == "AS_PARSER_MODE_DISTRO"

as_xmldata_init ==
    [locale |-> NULL, locale_short |-> NULL, origin |-> NULL,
     media_baseurl |-> NULL, default_priority |-> 0, mode |-> UPSTREAM]

(* as_xmldata_get_node_locale, on the private state p *)
NodeLocaleMut(p, node) ==
    LET lang == xmlGetProp(node, "lang") IN
    IF lang = NULL THEN "C"
    ELSE IF g_strcmp0(p.locale, "ALL") = 0 THEN lang
    ELSE IF g_strcmp0(lang, p.locale) = 0 THEN lang
    ELSE IF g_strcmp0(lang, p.locale_short) = 0 THEN lang
    ELSE NULL

as_xmldata_get_node_locale(p, node) ==
    LET lang == xmlGetProp(node, "lang") IN
    IF lang = NULL THEN "C"
    ELSE IF g_strcmp0(p.locale, "ALL") = 0 THEN lang
    ELSE IF g_strcmp0(lang, p.locale) = 0 THEN lang
    ELSE IF g_strcmp0(lang, p.locale_short) = 0 THEN p.locale
    ELSE NULL

(***************************************************************************)
(* Utilities of the library outside this file (as-utils, GLib).            *)
(***************************************************************************)
RECURSIVE StripLeftChar(_, _)
StripLeftChar(s, c) ==
    IF Len(s) > 0 /\ CharAt(s, 1) = c THEN StripLeftChar(Tail(s), c) ELSE s

RECURSIVE StripRightChar(_, _)
StripRightChar(s, c) ==
    IF Len(s) > 0 /\ CharAt(s, Len(s)) = c
    THEN StripRightChar(SubSeq(s, 1, Len(s) - 1), c)
    ELSE s

(* g_build_filename (base, content, NULL) *)
g_build_filename(base, content) ==
    IF content = "" THEN base
    ELSE IF base = "" THEN content
    ELSE StripRightChar(base, "/") \o "/" \o StripLeftChar(content, "/")

AllDigits(s) == \A i \in 1..Len(s) : DigitVal(CharAt(s, i)) >= 0

(* days between 1970-01-01 and the civil date y-m-d *)
DaysFromCivil(y, m, d) ==
    LET yy == IF m <= 2 THEN y - 1 ELSE y
        era == yy \div 400
        yoe == yy - era * 400
        mp == IF m > 2 THEN m - 3 ELSE m + 9
        doy == (153 * mp + 2) \div 5 + d - 1
        doe == yoe * 365 + yoe \div 4 - yoe \div 100 + doy
    IN era * 146097 + doe - 719468

NoTime == -1

(* g_date_time_to_unix (as_iso8601_to_datetime (s)), NoTime when the   *)
(* string is not a date: YYYY-MM-DD, optionally followed by Thh:mm:ss  *)
as_iso8601_to_unix(s) ==
    LET dateOk == /\ Len(s) >= 10
                  /\ AllDigits(SubSeq(s, 1, 4)) /\ CharAt(s, 5) = "-"
                  /\ AllDigits(SubSeq(s, 6, 7)) /\ CharAt(s, 8) = "-"
                  /\ AllDigits(SubSeq(s, 9, 10))
        timeOk == /\ Len(s) >= 19
                  /\ CharAt(s, 11) = "T"
                  /\ AllDigits(SubSeq(s, 12, 13)) /\ CharAt(s, 14) = ":"
                  /\ AllDigits(SubSeq(s, 15, 16)) /\ CharAt(s, 17) = ":"
                  /\ AllDigits(SubSeq(s, 18, 19))
        y == DigitsValue(SubSeq(s, 1, 4), 0)
        m == DigitsValue(SubSeq(s, 6, 7), 0)
        d == DigitsValue(SubSeq(s, 9, 10), 0)
        secs == IF timeOk
                THEN DigitsValue(SubSeq(s, 12, 13), 0) * 3600
                     + DigitsValue(SubSeq(s, 15, 16), 0) * 60
                     + DigitsValue(SubSeq(s, 18, 19), 0)
                ELSE 0
    IN IF dateOk /\ m \in 1..12 /\ d \in 1..31 /\ (Len(s) = 10 \/ timeOk)
       THEN DaysFromCivil(y, m, d) * 86400 + secs
       ELSE NoTime

Pad2(n) == IF n < 10 THEN "0" \o NatToStr(n) ELSE NatToStr(n)

Pad4(n) ==
    IF n < 10 THEN "000" \o NatToStr(n)
    ELSE IF n < 100 THEN "00" \o NatToStr(n)
    ELSE IF n < 1000 THEN "0" \o NatToStr(n)
    ELSE NatToStr(n)

(* g_time_val_to_iso8601 of a time with tv_usec = 0 *)
g_time_val_to_iso8601(t) ==
    LET z == t \div 86400 + 719468
        era == z \div 146097
        doe == z - era * 146097
        yoe == (doe - doe \div 1460 + doe \div 36524 - doe \div 146096) \div 365
        doy == doe - (365 * yoe + yoe \div 4 - yoe \div 100)
        mp == (5 * doy + 2) \div 153
        d == doy - (153 * mp + 2) \div 5 + 1
        m == IF mp < 10 THEN mp + 3 ELSE mp - 9
        y == yoe + era * 400 + (IF m <= 2 THEN 1 ELSE 0)
        r == t % 86400
    IN Pad4(y) \o "-" \o Pad2(m) \o "-" \o Pad2(d) \o "T" \o Pad2(r \div 3600)
       \o ":" \o Pad2((r % 3600) \div 60) \o ":" \o Pad2(r % 60) \o "Z"

(***************************************************************************)
(* Kinds of the domain objects (as-enums of the library).  A kind is named *)
(* by its string; the sequences give the order of the enumerations.        *)
(***************************************************************************)
KIND_UNKNOWN == "unknown"
CHECKSUM_KIND_NONE == "none"

ComponentKinds == <<"unknown", "generic", "desktop", "font", "codec", "inputmethod", "addon", "firmware">>
UrlKinds == <<"unknown", "homepage", "bugtracker", "faq", "help", "donation">>
BundleKinds == <<"unknown", "limba", "xdg-app">>
ChecksumKinds == <<"none", "sha1", "sha256">>
SizeKinds == <<"unknown", "download", "installed">>
UrgencyKinds == <<"unknown", "low", "medium", "high", "critical">>

SeqRange(s) == {s[i] : i \in 1..Len(s)}

KindFromString(kinds, str) ==
    IF str \in SeqRange(kinds) THEN str ELSE kinds[1]

as_component_kind_from_string(str) == KindFromString(ComponentKinds, str)
as_url_kind_from_string(str) == KindFromString(UrlKinds, str)
as_bundle_kind_from_string(str) == KindFromString(BundleKinds, str)
as_checksum_kind_from_string(str) == KindFromString(ChecksumKinds, str)
as_size_kind_from_string(str) == KindFromString(SizeKinds, str)
as_urgency_kind_from_string(str) == KindFromString(UrgencyKinds, str)

(***************************************************************************)
(* The domain objects (AsComponent, AsScreenshot, AsImage, AsRelease,      *)
(* AsIcon), as records.  A locale-keyed table is a function of the locale. *)
(***************************************************************************)
EmptyTable == [k \in {} |-> ""]

TableSet(t, k, v) == (k :> v) @@ t

NullStrv == <<NULL>>

as_component_new ==
    [kind |-> KIND_UNKNOWN, id |-> NULL, priority |-> 0, active_locale |-> NULL,
     origin |-> NULL, source_pkgname |-> NULL,
     name |-> EmptyTable, summary |-> EmptyTable, developer_name |-> EmptyTable,
     description |-> EmptyTable,
     project_license |-> NULL, project_group |-> NULL,
     pkgnames |-> NullStrv, extends |-> <<>>, compulsory_for_desktops |-> NullStrv,
     categories |-> NullStrv, keywords |-> NullStrv,
     urls |-> EmptyTable, icons |-> <<>>, provided |-> <<>>, bundles |-> EmptyTable,
     screenshots |-> <<>>, releases |-> <<>>, languages |-> EmptyTable]

as_screenshot_new ==
    [kind |-> "normal", caption |-> EmptyTable, images |-> <<>>, active_locale |-> NULL]

as_release_new ==
    [version |-> NULL, timestamp |-> 0, urgency |-> KIND_UNKNOWN, locations |-> <<>>,
     checksums |-> EmptyTable, sizes |-> EmptyTable, description |-> EmptyTable,
     active_locale |-> NULL]

ProvidedItem(kind, item) == [kind |-> kind, item |-> item]

as_component_add_provided_item(cpt, kind, item) ==
    [cpt EXCEPT !.provided = Append(@, ProvidedItem(kind, item))]

as_screenshot_is_valid(scr) == Len(scr.images) > 0

(* minimal validity of a component: a non-empty id *)
as_component_is_valid(cpt) == ~as_str_empty(cpt.id)

(***************************************************************************)
(* Entity decoders.  Each loop over node->children is a recursion over the *)
(* list of children, carrying the object that is being filled.             *)
(***************************************************************************)

(* as_xmldata_dump_node_children is defined with the XML writer below *)

RECURSIVE as_xmldata_get_children_as_strv(_, _)
as_xmldata_get_children_as_strv(children, element_name) ==
    IF children = <<>> THEN <<>>
    ELSE LET iter == Head(children)
             rest == as_xmldata_get_children_as_strv(Tail(children), element_name)
         IN IF iter.type # "element" THEN rest
            ELSE IF g_strcmp0(iter.name, element_name) = 0
                 THEN <<g_strstrip(xmlNodeGetContent(iter))>> \o rest
                 ELSE rest

(* the width or height attribute of an image *)
ImageDimension(iter, name) ==
    LET str == xmlGetProp(iter, name) IN
    IF str = NULL THEN 0 ELSE g_ascii_strtoll(str)

(* the check of an image in as_xmldata_process_screenshot *)
ImageDiscardedMut(p, width, height) ==
    p.mode = DISTRO /\ (width = 0) /\ (height = 0)

ImageDiscarded(p, width, height) ==
    p.mode = DISTRO /\ ((width = 0) \/ (height = 0))

(* the AsImage built from an image element *)
ImageFromNode(p, iter, content) ==
    [width |-> ImageDimension(iter, "width"),
     height |-> ImageDimension(iter, "height"),
     kind |-> IF g_strcmp0(xmlGetProp(iter, "type"), "thumbnail") = 0
              THEN "thumbnail" ELSE "source",
     url |-> IF p.media_baseurl = NULL THEN content
             ELSE g_build_filename(p.media_baseurl, content)]

RECURSIVE as_xmldata_process_screenshot(_, _, _)
as_xmldata_process_screenshot(p, children, scr) ==
    IF children = <<>> THEN scr
    ELSE LET iter == Head(children)
             content == g_strstrip(as_xmldata_get_node_value(iter))
             img == ImageFromNode(p, iter, content)
             lang == as_xmldata_get_node_locale(p, iter)
             next ==
                 IF iter.type # "element" THEN scr
                 ELSE IF g_strcmp0(iter.name, "image") = 0
                 THEN IF ImageDiscarded(p, img.width, img.height) THEN scr
                      ELSE [scr EXCEPT !.images = Append(@, img)]
                 ELSE IF g_strcmp0(iter.name, "caption") = 0
                 THEN IF lang # NULL
                      THEN [scr EXCEPT !.caption = TableSet(@, lang, content)]
                      ELSE scr
                 ELSE scr
         IN as_xmldata_process_screenshot(p, Tail(children), next)

RECURSIVE as_xmldata_process_screenshots_tag(_, _, _)
as_xmldata_process_screenshots_tag(p, children, cpt) ==
    IF children = <<>> THEN cpt
    ELSE LET iter == Head(children)
             fresh == [as_screenshot_new EXCEPT
                         !.active_locale = cpt.active_locale,
                         !.kind = IF g_strcmp0(xmlGetProp(iter, "type"), "default") = 0
                                  THEN "default" ELSE @]
             sshot == as_xmldata_process_screenshot(p, iter.children, fresh)
             next ==
                 IF iter.type = "element" /\ g_strcmp0(iter.name, "screenshot") = 0
                    /\ as_screenshot_is_valid(sshot)
                 THEN [cpt EXCEPT !.screenshots = Append(@, sshot)]
                 ELSE cpt
         IN as_xmldata_process_screenshots_tag(p, Tail(children), next)

(* the hash table built by as_xmldata_parse_upstream_description_tag *)
RECURSIVE UpstreamDescriptionTable(_, _, _)
UpstreamDescriptionTable(p, children, desc) ==
    IF children = <<>> THEN desc
    ELSE LET iter == Head(children)
             lang == as_xmldata_get_node_locale(p, iter)
             content == as_xmldata_get_node_value(iter)
             str == IF lang \in DOMAIN desc THEN desc[lang] ELSE ""
             next ==
                 IF iter.type # "element" \/ lang = NULL THEN desc
                 ELSE TableSet(desc, lang,
                               str \o "\n<" \o iter.name \o ">" \o content
                                   \o "</" \o iter.name \o ">")
         IN UpstreamDescriptionTable(p, Tail(children), next)

(* g_hash_table_foreach with as_xmldata_upstream_description_to_cpt /      *)
(* _to_release: every key of the table is set on the entity                *)
as_xmldata_parse_upstream_description_tag(p, node, entity) ==
    LET desc == UpstreamDescriptionTable(p, node.children, EmptyTable) IN
    [entity EXCEPT !.description = desc @@ @]

(***************************************************************************)
(* The XML writer of libxml2 (xmlNodeDump), used to capture description    *)
(* markup as text.                                                         *)
(***************************************************************************)
EscapeChar(c) ==
    CASE c = "<" -> "&lt;" [] c = ">" -> "&gt;" [] c = "&" -> "&amp;" [] OTHER -> c

RECURSIVE xmlEscape(_)
xmlEscape(s) ==
    IF s = "" THEN "" ELSE EscapeChar(CharAt(s, 1)) \o xmlEscape(Tail(s))

RECURSIVE DumpAttrs(_)
DumpAttrs(attrs) ==
    IF attrs = <<>> THEN ""
    ELSE " " \o (IF Head(attrs).ns = "" THEN "" ELSE Head(attrs).ns \o ":")
         \o Head(attrs).name \o "=\""
         \o (IF Head(attrs).value = NULL THEN "" ELSE xmlEscape(Head(attrs).value)) \o "\""
         \o DumpAttrs(Tail(attrs))

RECURSIVE Indent(_)
Indent(level) == IF level <= 0 THEN "" ELSE "  " \o Indent(level - 1)

HasTextChild(node) == \E i \in 1..Len(node.children) : node.children[i].type = "text"

RECURSIVE xmlNodeDump(_, _, _)
RECURSIVE DumpChildren(_, _, _)
DumpChildren(children, level, format) ==
    IF children = <<>> THEN ""
    ELSE (IF format THEN Indent(level) ELSE "")
         \o xmlNodeDump(Head(children), level, format)
         \o (IF format THEN "\n" ELSE "")
         \o DumpChildren(Tail(children), level, format)

(* xmlNodeDump (buf, NULL, node, level, format) *)
xmlNodeDump(node, level, format) ==
    IF node.type = "text" THEN xmlEscape(node.content)
    ELSE IF node.children = <<>>
    THEN "<" \o node.name \o DumpAttrs(node.attrs) \o "/>"
    ELSE LET fmt == format /\ ~HasTextChild(node) IN
         "<" \o node.name \o DumpAttrs(node.attrs) \o ">"
         \o (IF fmt THEN "\n" ELSE "")
         \o DumpChildren(node.children, level + 1, fmt)
         \o (IF fmt THEN Indent(level) ELSE "")
         \o "</" \o node.name \o ">"

RECURSIVE DumpNodeChildrenLoop(_, _)
DumpNodeChildrenLoop(children, str) ==
    IF children = <<>> THEN str
    ELSE LET iter == Head(children)
             next == IF iter.type # "element" THEN str
                     ELSE (IF Len(str) > 0 THEN str \o "\n" ELSE str)
                          \o xmlNodeDump(iter, 0, TRUE)
         IN DumpNodeChildrenLoop(Tail(children), next)

as_xmldata_dump_node_children(node) == DumpNodeChildrenLoop(node.children, "")

(***************************************************************************)
(* Releases.                                                               *)
(***************************************************************************)

(* the timestamp of a release element: the date attribute, then the       *)
(* timestamp attribute                                                     *)
ReleaseTimestampMut(iter, release) ==
    LET ts == xmlGetProp(iter, "timestamp")
        afterTs == IF ts # NULL
                   THEN [release EXCEPT !.timestamp = g_ascii_strtoll(ts)]
                   ELSE release
        date == xmlGetProp(iter, "date")
    IN IF date # NULL /\ as_iso8601_to_unix(date) # NoTime
       THEN [afterTs EXCEPT !.timestamp = as_iso8601_to_unix(date)]
       ELSE afterTs

ReleaseTimestamp(iter, release) ==
    LET date == xmlGetProp(iter, "date")
        afterDate == IF date # NULL /\ as_iso8601_to_unix(date) # NoTime
                     THEN [release EXCEPT !.timestamp = as_iso8601_to_unix(date)]
                     ELSE release
        ts == xmlGetProp(iter, "timestamp")
    IN IF ts # NULL
       THEN [afterDate EXCEPT !.timestamp = g_ascii_strtoll(ts)]
       ELSE afterDate

(* g_ascii_strtoull (content, NULL, 10) *)
g_ascii_strtoull(s) == g_ascii_strtoll(s)

(* the loop over the children of one release element *)
RECURSIVE ReleaseChildren(_, _, _)
ReleaseChildren(p, children, release) ==
    IF children = <<>> THEN release
    ELSE LET iter2 == Head(children)
             content == as_xmldata_get_node_value(iter2)
             prop == xmlGetProp(iter2, "type")
             cs_kind == as_checksum_kind_from_string(prop)
             s_kind == as_size_kind_from_string(prop)
             size == g_ascii_strtoull(content)
             lang == as_xmldata_get_node_locale(p, iter2)
             next ==
                 IF g_strcmp0(iter2.name, "location") = 0
                 THEN [release EXCEPT !.locations = Append(@, content)]
                 ELSE IF g_strcmp0(iter2.name, "checksum") = 0
                 THEN IF cs_kind # CHECKSUM_KIND_NONE
                      THEN [release EXCEPT !.checksums = TableSet(@, cs_kind, content)]
                      ELSE release
                 ELSE IF g_strcmp0(iter2.name, "size") = 0
                 THEN IF s_kind # KIND_UNKNOWN /\ size > 0
                      THEN [release EXCEPT !.sizes = TableSet(@, s_kind, size)]
                      ELSE release
                 ELSE IF g_strcmp0(iter2.name, "description") = 0
                 THEN IF p.mode = DISTRO
                      THEN IF lang # NULL
                           THEN [release EXCEPT !.description =
                                   TableSet(@, lang, as_xmldata_dump_node_children(iter2))]
                           ELSE release
                      ELSE as_xmldata_parse_upstream_description_tag(p, iter2, release)
                 ELSE release
         IN ReleaseChildren(p, Tail(children), next)

(* the AsRelease decoded from one release element *)
ReleaseFromNode(p, iter, cpt) ==
    LET r0 == [as_release_new EXCEPT !.active_locale = cpt.active_locale,
                                     !.version = xmlGetProp(iter, "version")]
        r1 == ReleaseTimestamp(iter, r0)
        urgency == xmlGetProp(iter, "urgency")
        r2 == IF urgency # NULL
              THEN [r1 EXCEPT !.urgency = as_urgency_kind_from_string(urgency)]
              ELSE r1
    IN ReleaseChildren(p, iter.children, r2)

RECURSIVE as_xmldata_process_releases_tag(_, _, _)
as_xmldata_process_releases_tag(p, children, cpt) ==
    IF children = <<>> THEN cpt
    ELSE LET iter == Head(children)
             next ==
                 IF iter.type = "element" /\ g_strcmp0(iter.name, "release") = 0
                 THEN [cpt EXCEPT !.releases = Append(@, ReleaseFromNode(p, iter, cpt))]
                 ELSE cpt
         IN as_xmldata_process_releases_tag(p, Tail(children), next)

(***************************************************************************)
(* Provided items, component type, languages.                              *)
(***************************************************************************)

(* the provided item one child of provides adds: <<>> or one item *)
ProvidedFromNodeMut(iter, content) ==
    LET node_name == iter.name
        type == xmlGetProp(iter, "type")
    IN IF node_name \in {"library", "binary", "font", "modalias", "python2", "python3"}
       THEN <<ProvidedItem(node_name, content)>>
       ELSE IF node_name = "firmware"
       THEN <<ProvidedItem("firmware-runtime", content)>>
       ELSE IF node_name = "dbus"
       THEN IF type = "system" THEN <<ProvidedItem("dbus-system", content)>>
            ELSE IF type = "user" \/ type = "session"
                 THEN <<ProvidedItem("dbus-user", content)>>
                 ELSE <<>>
       ELSE <<>>

ProvidedFromNode(iter, content) ==
    LET node_name == iter.name IN
    IF g_strcmp0(node_name, "library") = 0 THEN <<ProvidedItem("library", content)>>
    ELSE IF g_strcmp0(node_name, "binary") = 0 THEN <<ProvidedItem("binary", content)>>
    ELSE IF g_strcmp0(node_name, "font") = 0 THEN <<ProvidedItem("font", content)>>
    ELSE IF g_strcmp0(node_name, "modalias") = 0 THEN <<ProvidedItem("modalias", content)>>
    ELSE IF g_strcmp0(node_name, "firmware") = 0
    THEN LET fwtype == xmlGetProp(iter, "type") IN
         IF fwtype # NULL /\ g_strcmp0(fwtype, "runtime") = 0
         THEN <<ProvidedItem("firmware-runtime", content)>>
         ELSE IF fwtype # NULL /\ g_strcmp0(fwtype, "flashed") = 0
         THEN <<ProvidedItem("firmware-flashed", content)>>
         ELSE <<>>
    ELSE IF g_strcmp0(node_name, "python2") = 0 THEN <<ProvidedItem("python2", content)>>
    ELSE IF g_strcmp0(node_name, "python3") = 0 THEN <<ProvidedItem("python3", content)>>
    ELSE IF g_strcmp0(node_name, "dbus") = 0
    THEN LET dbustype == xmlGetProp(iter, "type") IN
         IF g_strcmp0(dbustype, "system") = 0
         THEN <<ProvidedItem("dbus-system", content)>>
         ELSE IF (g_strcmp0(dbustype, "user") = 0) \/ (g_strcmp0(dbustype, "session") = 0)
         THEN <<ProvidedItem("dbus-user", content)>>
         ELSE <<>>
    ELSE <<>>

RECURSIVE as_xmldata_process_provides(_, _)
as_xmldata_process_provides(children, cpt) ==
    IF children = <<>> THEN cpt
    ELSE LET iter == Head(children)
             content == as_xmldata_get_node_value(iter)
             next == IF iter.type # "element" THEN cpt
                     ELSE [cpt EXCEPT !.provided = @ \o ProvidedFromNode(iter, content)]
         IN as_xmldata_process_provides(Tail(children), next)

as_xmldata_set_component_type_from_node(node, cpt) ==
    LET cpttype == xmlGetProp(node, "type") IN
    IF (cpttype = NULL) \/ (g_strcmp0(cpttype, "generic") = 0)
    THEN [cpt EXCEPT !.kind = "generic"]
    ELSE [cpt EXCEPT !.kind = as_component_kind_from_string(cpttype)]

RECURSIVE as_xmldata_process_languages_tag(_, _, _)
as_xmldata_process_languages_tag(p, children, cpt) ==
    IF children = <<>> THEN cpt
    ELSE LET iter == Head(children)
             prop == xmlGetProp(iter, "percentage")
             percentage == IF prop # NULL THEN g_ascii_strtoll(prop) ELSE 0
             locale == as_xmldata_get_node_locale(p, iter)
             next ==
                 IF iter.type = "element" /\ g_strcmp0(iter.name, "lang") = 0
                 THEN [cpt EXCEPT !.languages = TableSet(@, locale, percentage)]
                 ELSE cpt
         IN as_xmldata_process_languages_tag(p, Tail(children), next)

(***************************************************************************)
(* The component decoder.                                                  *)
(***************************************************************************)
as_icon_new == [kind |-> KIND_UNKNOWN, name |-> NULL, filename |-> NULL, url |-> NULL]

(* the icons an icon element adds: <<>> or one AsIcon *)
IconFromNode(p, iter, content) ==
    LET prop == xmlGetProp(iter, "type") IN
    IF g_strcmp0(prop, "stock") = 0
    THEN <<[as_icon_new EXCEPT !.kind = "stock", !.name = content]>>
    ELSE IF g_strcmp0(prop, "cached") = 0
    THEN <<[as_icon_new EXCEPT !.kind = "cached", !.filename = content]>>
    ELSE IF g_strcmp0(prop, "local") = 0
    THEN <<[as_icon_new EXCEPT !.kind = "local", !.filename = content]>>
    ELSE IF g_strcmp0(prop, "remote") = 0
    THEN <<[as_icon_new EXCEPT
              !.kind = "remote",
              !.url = IF p.media_baseurl = NULL THEN content
                      ELSE g_build_filename(p.media_baseurl, content)]>>
    ELSE <<>>

RECURSIVE AddMimetypes(_, _)
AddMimetypes(mime_array, cpt) ==
    IF mime_array = <<>> THEN cpt
    ELSE AddMimetypes(Tail(mime_array),
                      as_component_add_provided_item(cpt, "mimetype", Head(mime_array)))

(* the bundle kind an element is stored under *)
BundleKindFromNodeMut(iter) ==
    as_bundle_kind_from_string(xmlGetProp(iter, "type"))

BundleKindFromNode(iter) ==
    LET bundle_kind == as_bundle_kind_from_string(xmlGetProp(iter, "type")) IN
    IF bundle_kind # KIND_UNKNOWN THEN "limba" ELSE bundle_kind

(* whether the id element is asked for the legacy type of the component *)
LegacyTypeFallbackMut(p, cpt) == cpt.kind = "generic"

LegacyTypeFallback(p, cpt) == (p.mode = UPSTREAM) /\ (cpt.kind = "generic")

(* One pass of the dispatch loop of as_xmldata_parse_component_node.  acc  *)
(* carries the component and the two accumulator arrays.                   *)
ComponentChild(p, iter, acc) ==
    LET cpt == acc.cpt
        node_name == iter.name
        content == g_strstrip(as_xmldata_get_node_value(iter))
        lang == as_xmldata_get_node_locale(p, iter)
        C(c) == [acc EXCEPT !.cpt = c]
    IN
    IF iter.type # "element" THEN acc
    ELSE IF g_strcmp0(node_name, "id") = 0
    THEN LET c1 == [cpt EXCEPT !.id = content] IN
         IF LegacyTypeFallback(p, c1)
         THEN C(as_xmldata_set_component_type_from_node(iter, c1))
         ELSE C(c1)
    ELSE IF g_strcmp0(node_name, "pkgname") = 0
    THEN [acc EXCEPT !.pkgnames = Append(@, content)]
    ELSE IF g_strcmp0(node_name, "source_pkgname") = 0
    THEN C([cpt EXCEPT !.source_pkgname = content])
    ELSE IF g_strcmp0(node_name, "name") = 0
    THEN IF lang # NULL THEN C([cpt EXCEPT !.name = TableSet(@, lang, content)]) ELSE acc
    ELSE IF g_strcmp0(node_name, "summary") = 0
    THEN IF lang # NULL THEN C([cpt EXCEPT !.summary = TableSet(@, lang, content)]) ELSE acc
    ELSE IF g_strcmp0(node_name, "description") = 0
    THEN IF p.mode = DISTRO
         THEN IF lang # NULL
              THEN C([cpt EXCEPT !.description =
                        TableSet(@, lang, as_xmldata_dump_node_children(iter))])
              ELSE acc
         ELSE C(as_xmldata_parse_upstream_description_tag(p, iter, cpt))
    ELSE IF g_strcmp0(node_name, "icon") = 0
    THEN C([cpt EXCEPT !.icons = @ \o IconFromNode(p, iter, content)])
    ELSE IF g_strcmp0(node_name, "url") = 0
    THEN LET url_kind == as_url_kind_from_string(xmlGetProp(iter, "type")) IN
         IF url_kind # KIND_UNKNOWN
         THEN C([cpt EXCEPT !.urls = TableSet(@, url_kind, content)])
         ELSE acc
    ELSE IF g_strcmp0(node_name, "categories") = 0
    THEN C([cpt EXCEPT !.categories =
              as_xmldata_get_children_as_strv(iter.children, "category")])
    ELSE IF g_strcmp0(node_name, "keywords") = 0
    THEN C([cpt EXCEPT !.keywords =
              as_xmldata_get_children_as_strv(iter.children, "keyword")])
    ELSE IF g_strcmp0(node_name, "mimetypes") = 0
    THEN C(AddMimetypes(as_xmldata_get_children_as_strv(iter.children, "mimetype"), cpt))
    ELSE IF g_strcmp0(node_name, "provides") = 0
    THEN C(as_xmldata_process_provides(iter.children, cpt))
    ELSE IF g_strcmp0(node_name, "screenshots") = 0
    THEN C(as_xmldata_process_screenshots_tag(p, iter.children, cpt))
    ELSE IF g_strcmp0(node_name, "project_license") = 0
    THEN C([cpt EXCEPT !.project_license = content])
    ELSE IF g_strcmp0(node_name, "project_group") = 0
    THEN C([cpt EXCEPT !.project_group = content])
    ELSE IF g_strcmp0(node_name, "developer_name") = 0
    THEN IF lang # NULL
         THEN C([cpt EXCEPT !.developer_name = TableSet(@, lang, content)])
         ELSE acc
    ELSE IF g_strcmp0(node_name, "compulsory_for_desktop") = 0
    THEN [acc EXCEPT !.compulsory_for_desktops = Append(@, content)]
    ELSE IF g_strcmp0(node_name, "releases") = 0
    THEN C(as_xmldata_process_releases_tag(p, iter.children, cpt))
    ELSE IF g_strcmp0(node_name, "extends") = 0
    THEN C([cpt EXCEPT !.extends = Append(@, content)])
    ELSE IF g_strcmp0(node_name, "languages") = 0
    THEN C(as_xmldata_process_languages_tag(p, iter.children, cpt))
    ELSE IF g_strcmp0(node_name, "bundle") = 0
    THEN C([cpt EXCEPT !.bundles = TableSet(@, BundleKindFromNode(iter), content)])
    ELSE acc

RECURSIVE ComponentChildren(_, _, _)
ComponentChildren(p, children, acc) ==
    IF children = <<>> THEN acc
    ELSE ComponentChildren(p, Tail(children), ComponentChild(p, Head(children), acc))

NoError == [code |-> "none", message |-> ""]

GError(code, message) == [code |-> code, message |-> message]

(* the record as it stands after the dispatch loop and the finalization *)
DecodedComponentMut(p, node) ==
    LET c0 == as_xmldata_set_component_type_from_node(node, as_component_new)
        c1 == [c0 EXCEPT !.priority = p.default_priority, !.active_locale = p.locale]
        Finish(acc) == [acc.cpt EXCEPT !.origin = p.origin]
    IN Finish(ComponentChildren(p, node.children,
                  [cpt |-> c1, pkgnames |-> <<>>, compulsory_for_desktops |-> <<>>]))

DecodedComponent(p, node) ==
    LET c0 == as_xmldata_set_component_type_from_node(node, as_component_new)
        c1 == [c0 EXCEPT !.priority = p.default_priority, !.active_locale = p.locale]
        Finish(acc) ==
            [acc.cpt EXCEPT !.origin = p.origin,
                            !.pkgnames = acc.pkgnames,
                            !.compulsory_for_desktops = acc.compulsory_for_desktops]
    IN Finish(ComponentChildren(p, node.children,
                  [cpt |-> c1, pkgnames |-> <<>>, compulsory_for_desktops |-> <<>>]))

(* whether as_xmldata_parse_component_node returns the decoded record *)
ComponentAcceptedMut(allow_invalid, cpt) == TRUE

ComponentAccepted(allow_invalid, cpt) ==
    (allow_invalid) \/ (as_component_is_valid(cpt))

(* as_xmldata_parse_component_node: cpt is <<>> for a NULL return *)
as_xmldata_parse_component_node(p, node, allow_invalid) ==
    LET Return(cpt) ==
            IF ComponentAccepted(allow_invalid, cpt)
            THEN [cpt |-> <<cpt>>, error |-> NoError]
            ELSE [cpt |-> <<>>,
                  error |-> GError("AS_METADATA_ERROR_FAILED", "Invalid component")]
    IN Return(DecodedComponent(p, node))

(***************************************************************************)
(* The XML reader of libxml2 (xmlParseDoc), for the text this file itself  *)
(* hands to it: serialized documents and description markup.  A parse      *)
(* result is [ok, pos, ...]; ok = FALSE is a document that is not          *)
(* well-formed.                                                            *)
(***************************************************************************)
StartsWith(s, i, prefix) ==
    i + Len(prefix) - 1 <= Len(s) /\ SubSeq(s, i, i + Len(prefix) - 1) = prefix

RECURSIVE SkipSpace(_, _)
SkipSpace(s, i) ==
    IF i <= Len(s) /\ IsSpace(CharAt(s, i)) THEN SkipSpace(s, i + 1) ELSE i

IsNameChar(c) == c \notin {"", " ", "\n", "\t", "\r", "<", ">", "/", "=", "\"", "&"}

RECURSIVE NameEnd(_, _)
NameEnd(s, i) ==
    IF i <= Len(s) /\ IsNameChar(CharAt(s, i)) THEN NameEnd(s, i + 1) ELSE i

(* text up to the next "<", entities replaced; ok = FALSE at a bare "&" *)
RECURSIVE ParseText(_, _, _, _)
ParseText(s, i, stop, acc) ==
    IF i > Len(s) \/ CharAt(s, i) = stop THEN [ok |-> TRUE, pos |-> i, text |-> acc]
    ELSE IF CharAt(s, i) = "&"
    THEN IF StartsWith(s, i, "&lt;") THEN ParseText(s, i + 4, stop, acc \o "<")
         ELSE IF StartsWith(s, i, "&gt;") THEN ParseText(s, i + 4, stop, acc \o ">")
         ELSE IF StartsWith(s, i, "&amp;") THEN ParseText(s, i + 5, stop, acc \o "&")
         ELSE IF StartsWith(s, i, "&quot;") THEN ParseText(s, i + 6, stop, acc \o "\"")
         ELSE [ok |-> FALSE, pos |-> i, text |-> acc]
    ELSE IF CharAt(s, i) = "<" THEN [ok |-> FALSE, pos |-> i, text |-> acc]
    ELSE ParseText(s, i + 1, stop, acc \o CharAt(s, i))

ParsedAttr(qname, value) ==
    IF StartsWith(qname, 1, "xml:")
    THEN [name |-> SubSeq(qname, 5, Len(qname)), value |-> value, ns |-> "xml"]
    ELSE Attr(qname, value)

RECURSIVE ParseAttrs(_, _, _)
ParseAttrs(s, i, acc) ==
    LET Value(j, e, v) ==
            IF e = j \/ ~StartsWith(s, e, "=\"") \/ ~v.ok \/ v.pos > Len(s)
            THEN [ok |-> FALSE, pos |-> j, attrs |-> acc]
            ELSE ParseAttrs(s, v.pos + 1,
                            Append(acc, ParsedAttr(SubSeq(s, j, e - 1), v.text)))
        Name(j, e) == Value(j, e, ParseText(s, e + 2, "\"", ""))
        At(j) ==
            IF j > Len(s) THEN [ok |-> FALSE, pos |-> j, attrs |-> acc]
            ELSE IF CharAt(s, j) \in {">", "/"} THEN [ok |-> TRUE, pos |-> j, attrs |-> acc]
            ELSE Name(j, NameEnd(s, j))
    IN At(SkipSpace(s, i))

RECURSIVE ParseElement(_, _)
RECURSIVE ParseChildren(_, _, _)

(* the children of an element, up to its end tag (or the end of the text) *)
ParseChildren(s, i, acc) ==
    IF i > Len(s) \/ StartsWith(s, i, "</") THEN [ok |-> TRUE, pos |-> i, nodes |-> acc]
    ELSE IF CharAt(s, i) = "<"
    THEN LET Child(el) ==
                 IF el.ok THEN ParseChildren(s, el.pos, Append(acc, el.node))
                 ELSE [ok |-> FALSE, pos |-> i, nodes |-> acc]
         IN Child(ParseElement(s, i))
    ELSE LET Chars(t) ==
                 IF t.ok THEN ParseChildren(s, t.pos, Append(acc, Text(t.text)))
                 ELSE [ok |-> FALSE, pos |-> i, nodes |-> acc]
         IN Chars(ParseText(s, i, "<", ""))

ParseElement(s, i) ==
    LET bad == [ok |-> FALSE, pos |-> i, node |-> Text("")]
        Content(name, at, ch) ==
            IF ch.ok /\ StartsWith(s, ch.pos, "</" \o name \o ">")
            THEN [ok |-> TRUE, pos |-> ch.pos + Len(name) + 3,
                  node |-> Elem(name, at.attrs, ch.nodes)]
            ELSE bad
        Tag(e, name, at) ==
            IF ~StartsWith(s, i, "<") \/ e = i + 1 \/ ~at.ok THEN bad
            ELSE IF StartsWith(s, at.pos, "/>")
            THEN [ok |-> TRUE, pos |-> at.pos + 2, node |-> Elem(name, at.attrs, <<>>)]
            ELSE IF ~StartsWith(s, at.pos, ">") THEN bad
            ELSE Content(name, at, ParseChildren(s, at.pos + 1, <<>>))
        Name(e) == Tag(e, SubSeq(s, i + 1, e - 1), ParseAttrs(s, e, <<>>))
    IN Name(NameEnd(s, i + 1))

XmlDecl == "<?xml version=\"1.0\"?>\n"

(* A document as the parse entry points see it: data == NULL ("null"),   *)
(* xmlParseDoc failing ("malformed"), a document without root element  *)
(* ("empty"), or a tree.                                               *)
Doc(kind, root) == [kind |-> kind, root |-> root]

NullData == Doc("null", Text(""))
MalformedDoc == Doc("malformed", Text(""))
EmptyDoc == Doc("empty", Text(""))
TreeDoc(root) == Doc("tree", root)

(* xmlParseDoc (text) *)
xmlParseDoc(text) ==
    LET start == SkipSpace(text, IF StartsWith(text, 1, XmlDecl) THEN Len(XmlDecl) + 1 ELSE 1)
        Root(el) ==
            IF el.ok /\ SkipSpace(text, el.pos) > Len(text) THEN TreeDoc(el.node)
            ELSE MalformedDoc
    IN IF text = NULL THEN NullData ELSE Root(ParseElement(text, start))

(***************************************************************************)
(* Entity encoders.  Each returns the list of nodes it adds to its parent. *)
(***************************************************************************)

(* as_xmldata_xml_add_node *)
as_xmldata_xml_add_node(name, value) ==
    IF as_str_empty(value) THEN <<>> ELSE <<TextElem(name, <<>>, value)>>

(* xmlAddChild (parent, cur): a text node is merged into a text node that *)
(* ends the list of children                                             *)
xmlAddChild(children, cur) ==
    IF cur.type = "text" /\ children # <<>> /\ children[Len(children)].type = "text"
    THEN [children EXCEPT ![Len(children)].content = @ \o cur.content]
    ELSE Append(children, cur)

(* xmlNewProp (node, name, value): nothing on a node that is no element *)
xmlNewProp(node, name, value) ==
    IF node.type # "element" THEN node
    ELSE [node EXCEPT !.attrs = Append(@, Attr(name, value))]

(* the copies of the children of a ul/ol added to the new list node *)
EnumChildrenMut(p, items, lang, acc) == acc \o items

RECURSIVE EnumChildren(_, _, _, _)
EnumChildren(p, items, lang, acc) ==
    IF items = <<>> THEN acc
    ELSE LET localized == g_strcmp0(lang, "C") # 0
             cn == IF (p.mode = UPSTREAM) /\ localized
                   THEN xmlNewProp(Head(items), "xml:lang", lang)
                   ELSE Head(items)
         IN EnumChildren(p, Tail(items), lang, xmlAddChild(acc, cn))

(* the loop of as_xmldata_xml_add_description over the parsed markup:     *)
(* dchildren are the children of the description node so far             *)
RECURSIVE DescriptionChildren(_, _, _, _)
DescriptionChildren(p, nodes, lang, dchildren) ==
    IF nodes = <<>> THEN dchildren
    ELSE LET iter == Head(nodes)
             localized == g_strcmp0(lang, "C") # 0
             next ==
                 IF (g_strcmp0(iter.name, "ul") = 0) \/ (g_strcmp0(iter.name, "ol") = 0)
                 THEN Append(dchildren,
                             Elem(iter.name, <<>>, EnumChildren(p, iter.children, lang, <<>>)))
                 ELSE xmlAddChild(dchildren,
                                  IF (p.mode = UPSTREAM) /\ localized
                                  THEN xmlNewProp(iter, "xml:lang", lang)
                                  ELSE iter)
         IN DescriptionChildren(p, Tail(nodes), lang, next)

(* as_xmldata_xml_add_description: nodes are the children of the parent   *)
(* so far, desc_node the index of the shared description node (0: none)  *)
as_xmldata_xml_add_description(p, st, description_markup, lang) ==
    LET localized == g_strcmp0(lang, "C") # 0
        reuse == p.mode = UPSTREAM /\ st.desc_node # 0
        index == IF reuse THEN st.desc_node ELSE Len(st.nodes) + 1
        attrs == IF p.mode # UPSTREAM /\ localized
                 THEN <<Attr("xml:lang", lang)>> ELSE <<>>
        old == IF reuse THEN st.nodes[index].children ELSE <<>>
        Place(dnode) ==
            [nodes |-> IF reuse THEN [st.nodes EXCEPT ![index] = dnode]
                       ELSE Append(st.nodes, dnode),
             desc_node |-> IF p.mode = UPSTREAM THEN index ELSE st.desc_node]
        Add(doc) ==
            IF as_str_empty(description_markup) \/ doc.kind # "tree" THEN st
            ELSE Place(Elem("description",
                            IF reuse THEN st.nodes[index].attrs ELSE attrs,
                            DescriptionChildren(p, doc.root.children, lang, old)))
    IN Add(xmlParseDoc("<root>" \o description_markup \o "</root>"))

(* the keys of a table in the order perm gives them *)
RECURSIVE TableKeys(_, _)
TableKeys(t, perm) ==
    IF perm = <<>> THEN <<>>
    ELSE (IF Head(perm) \in DOMAIN t THEN <<Head(perm)>> ELSE <<>>)
         \o TableKeys(t, Tail(perm))

(* g_hash_table_foreach with _as_xmldata_lang_hashtable_to_nodes *)
RECURSIVE LangTableNodes(_, _, _)
LangTableNodes(t, keys, node_name) ==
    IF keys = <<>> THEN <<>>
    ELSE LET key == Head(keys)
             value == t[key]
         IN (IF as_str_empty(value) THEN <<>>
             ELSE <<TextElem(node_name,
                             IF g_strcmp0(key, "C") # 0 THEN <<Attr("xml:lang", key)>> ELSE <<>>,
                             value)>>)
            \o LangTableNodes(t, Tail(keys), node_name)

(* g_hash_table_foreach with _as_xmldata_desc_lang_hashtable_to_nodes *)
RECURSIVE DescTableNodes(_, _, _, _)
DescTableNodes(p, t, keys, st) ==
    IF keys = <<>> THEN st
    ELSE LET key == Head(keys)
             value == t[key]
         IN DescTableNodes(p, t, Tail(keys),
                IF as_str_empty(value) THEN st
                ELSE as_xmldata_xml_add_description(p, st, value, key))

RECURSIVE StrvNodes(_, _)
StrvNodes(child_name, strv) ==
    IF strv = <<>> THEN <<>>
    ELSE <<TextElem(child_name, <<>>, Head(strv))>> \o StrvNodes(child_name, Tail(strv))

(* as_xmldata_xml_add_node_list; name = NULL adds the children to root *)
as_xmldata_xml_add_node_list(name, child_name, strv) ==
    IF strv = NullStrv THEN <<>>
    ELSE IF name = NULL THEN StrvNodes(child_name, strv)
    ELSE <<Elem(name, <<>>, StrvNodes(child_name, strv))>>

(* _as_xmldata_serialize_image *)
as_xmldata_serialize_image(img) ==
    TextElem("image",
             <<Attr("type", IF img.kind = "thumbnail" THEN "thumbnail" ELSE "source")>>
             \o (IF (img.width > 0) /\ (img.height > 0)
                 THEN <<Attr("width", IntToStr(img.width)),
                        Attr("height", IntToStr(img.height))>>
                 ELSE <<>>),
             img.url)

RECURSIVE ImageNodes(_)
ImageNodes(images) ==
    IF images = <<>> THEN <<>>
    ELSE <<as_xmldata_serialize_image(Head(images))>> \o ImageNodes(Tail(images))

(* the value of a locale-keyed text for the active locale of its object  *)
(* (as_screenshot_get_caption, as_release_get_description)               *)
LocalizedGet(t, active_locale) ==
    IF active_locale \in DOMAIN t THEN t[active_locale]
    ELSE IF "C" \in DOMAIN t THEN t["C"]
    ELSE NULL

RECURSIVE as_xmldata_add_screenshot_subnodes(_)
as_xmldata_add_screenshot_subnodes(sslist) ==
    IF sslist = <<>> THEN <<>>
    ELSE LET sshot == Head(sslist)
             str == LocalizedGet(sshot.caption, sshot.active_locale)
             subnode ==
                 Elem("screenshot",
                      IF sshot.kind = "default" THEN <<Attr("type", "default")>> ELSE <<>>,
                      <<Text("")>>
                      \o (IF g_strcmp0(str, "") # 0
                          THEN <<TextElem("caption", <<>>, str)>> ELSE <<>>)
                      \o ImageNodes(sshot.images))
         IN <<subnode>> \o as_xmldata_add_screenshot_subnodes(Tail(sslist))

(* the checksum or size nodes of a release, in the order of the kinds *)
RECURSIVE ChecksumNodes(_, _)
ChecksumNodes(release, kinds) ==
    IF kinds = <<>> THEN <<>>
    ELSE (IF Head(kinds) \in DOMAIN release.checksums
          THEN <<TextElem("checksum", <<Attr("type", Head(kinds))>>,
                          release.checksums[Head(kinds)])>>
          ELSE <<>>)
         \o ChecksumNodes(release, Tail(kinds))

RECURSIVE SizeNodes(_, _)
SizeNodes(release, kinds) ==
    IF kinds = <<>> THEN <<>>
    ELSE (IF Head(kinds) \in DOMAIN release.sizes /\ release.sizes[Head(kinds)] > 0
          THEN <<TextElem("size", <<Attr("type", Head(kinds))>>,
                          IntToStr(release.sizes[Head(kinds)]))>>
          ELSE <<>>)
         \o SizeNodes(release, Tail(kinds))

RECURSIVE as_xmldata_add_release_subnodes(_, _)
as_xmldata_add_release_subnodes(p, releases) ==
    IF releases = <<>> THEN <<>>
    ELSE LET release == Head(releases)
             unixtime == release.timestamp
             str == LocalizedGet(release.description, release.active_locale)
             subnode ==
                 Elem("release",
                      <<Attr("version", release.version)>>
                      \o (IF unixtime > 0
                          THEN IF p.mode = DISTRO
                               THEN <<Attr("timestamp", IntToStr(unixtime))>>
                               ELSE <<Attr("date", g_time_val_to_iso8601(unixtime))>>
                          ELSE <<>>)
                      \o (IF release.urgency # KIND_UNKNOWN
                          THEN <<Attr("urgency", release.urgency)>> ELSE <<>>),
                      <<Text("")>>
                      \o StrvNodes("location", release.locations)
                      \o ChecksumNodes(release, ChecksumKinds)
                      \o SizeNodes(release, SizeKinds)
                      \o (IF g_strcmp0(str, "") # 0
                          THEN <<TextElem("description", <<>>, str)>> ELSE <<>>))
         IN <<subnode>> \o as_xmldata_add_release_subnodes(p, Tail(releases))

(***************************************************************************)
(* The component encoder.                                                  *)
(***************************************************************************)
RECURSIVE UrlNodes(_, _)
UrlNodes(cpt, kinds) ==
    IF kinds = <<>> THEN <<>>
    ELSE (IF Head(kinds) \in DOMAIN cpt.urls
          THEN <<TextElem("url", <<Attr("type", Head(kinds))>>, cpt.urls[Head(kinds)])>>
          ELSE <<>>)
         \o UrlNodes(cpt, Tail(kinds))

(* the text an icon is written with *)
IconValue(icon) ==
    IF icon.kind = "local" THEN icon.filename
    ELSE IF icon.kind = "remote" THEN icon.url
    ELSE icon.name

RECURSIVE IconNodes(_)
IconNodes(icons) ==
    IF icons = <<>> THEN <<>>
    ELSE (IF IconValue(Head(icons)) = NULL THEN <<>>
          ELSE <<TextElem("icon", <<Attr("type", Head(icons).kind)>>, IconValue(Head(icons)))>>)
         \o IconNodes(Tail(icons))

RECURSIVE BundleNodes(_, _)
BundleNodes(cpt, kinds) ==
    IF kinds = <<>> THEN <<>>
    ELSE (IF Head(kinds) \in DOMAIN cpt.bundles
          THEN <<TextElem("bundle", <<Attr("type", Head(kinds))>>, cpt.bundles[Head(kinds)])>>
          ELSE <<>>)
         \o BundleNodes(cpt, Tail(kinds))

(* as_xmldata_component_to_node; perm is the order in which the hash     *)
(* tables of the component hand out their keys                           *)
as_xmldata_component_to_node(p, cpt, perm) ==
    LET kind == cpt.kind
        head == as_xmldata_xml_add_node("id", cpt.id)
                \o LangTableNodes(cpt.name, TableKeys(cpt.name, perm), "name")
                \o LangTableNodes(cpt.summary, TableKeys(cpt.summary, perm), "summary")
                \o LangTableNodes(cpt.developer_name,
                                  TableKeys(cpt.developer_name, perm), "developer_name")
        withDesc == DescTableNodes(p, cpt.description, TableKeys(cpt.description, perm),
                                   [nodes |-> head, desc_node |-> 0]).nodes
    IN Elem("component",
            IF (kind # "generic") /\ (kind # KIND_UNKNOWN)
            THEN <<Attr("type", kind)>> ELSE <<>>,
            withDesc
            \o as_xmldata_xml_add_node("project_license", cpt.project_license)
            \o as_xmldata_xml_add_node("project_group", cpt.project_group)
            \o as_xmldata_xml_add_node_list(NULL, "pkgname", cpt.pkgnames)
            \o as_xmldata_xml_add_node_list(NULL, "extends", cpt.extends)
            \o as_xmldata_xml_add_node_list(NULL, "compulsory_for_desktop",
                                            cpt.compulsory_for_desktops)
            \o as_xmldata_xml_add_node_list("keywords", "keyword", cpt.keywords)
            \o as_xmldata_xml_add_node_list("categories", "category", cpt.categories)
            \o UrlNodes(cpt, UrlKinds)
            \o IconNodes(cpt.icons)
            \o BundleNodes(cpt, BundleKinds)
            \o (IF Len(cpt.releases) > 0
                THEN <<Elem("releases", <<>>, as_xmldata_add_release_subnodes(p, cpt.releases))>>
                ELSE <<>>)
            \o (IF Len(cpt.screenshots) > 0
                THEN <<Elem("screenshots", <<>>,
                            as_xmldata_add_screenshot_subnodes(cpt.screenshots))>>
                ELSE <<>>))

(* xmlDocDumpMemory of a document with the given root *)
xmlDocDumpMemory(root) == XmlDecl \o xmlNodeDump(root, 0, FALSE) \o "\n"

RECURSIVE ComponentNodes(_, _, _)
ComponentNodes(p, cpts, perm) ==
    IF cpts = <<>> THEN <<>>
    ELSE <<as_xmldata_component_to_node(p, Head(cpts), perm)>>
         \o ComponentNodes(p, Tail(cpts), perm)

(***************************************************************************)
(* The collection decoder.  seen is what a read of the string behind      *)
(* priv->media_baseurl yields during this call.                            *)
(***************************************************************************)

(* the loop of as_xmldata_parse_components_node over the children *)
RECURSIVE ComponentsLoopMut(_, _, _, _)
ComponentsLoopMut(p, children, allow_invalid, cpts) ==
    IF children = <<>> THEN [cpts |-> cpts, error |-> NoError]
    ELSE LET iter == Head(children)
             Step(r) == ComponentsLoopMut(p, Tail(children), allow_invalid, cpts \o r.cpt)
         IN IF iter.type = "element" /\ g_strcmp0(iter.name, "component") = 0
            THEN Step(as_xmldata_parse_component_node(p, iter, allow_invalid))
            ELSE ComponentsLoopMut(p, Tail(children), allow_invalid, cpts)

RECURSIVE ComponentsLoopEmptiedMut(_, _, _, _)
ComponentsLoopEmptiedMut(p, children, allow_invalid, cpts) ==
    IF children = <<>> THEN [cpts |-> cpts, error |-> NoError]
    ELSE LET iter == Head(children)
             Step(r) ==
                 IF r.error # NoError THEN [cpts |-> <<>>, error |-> r.error]
                 ELSE ComponentsLoopEmptiedMut(p, Tail(children), allow_invalid,
                                               cpts \o r.cpt)
         IN IF iter.type = "element" /\ g_strcmp0(iter.name, "component") = 0
            THEN Step(as_xmldata_parse_component_node(p, iter, allow_invalid))
            ELSE ComponentsLoopEmptiedMut(p, Tail(children), allow_invalid, cpts)

RECURSIVE ComponentsLoop(_, _, _, _)
ComponentsLoop(p, children, allow_invalid, cpts) ==
    IF children = <<>> THEN [cpts |-> cpts, error |-> NoError]
    ELSE LET iter == Head(children)
             Step(r) ==
                 IF r.error # NoError THEN [cpts |-> cpts, error |-> r.error]
                 ELSE ComponentsLoop(p, Tail(children), allow_invalid, cpts \o r.cpt)
         IN IF iter.type = "element" /\ g_strcmp0(iter.name, "component") = 0
            THEN Step(as_xmldata_parse_component_node(p, iter, allow_invalid))
            ELSE ComponentsLoop(p, Tail(children), allow_invalid, cpts)

(* the private state after the head of as_xmldata_parse_components_node *)
ComponentsContextMut(p, node) ==
    LET priority_str == xmlGetProp(node, "priority") IN
    [p EXCEPT !.origin = xmlGetProp(node, "origin"),
              !.media_baseurl = xmlGetProp(node, "media_baseurl"),
              !.default_priority = IF priority_str # NULL
                                   THEN g_ascii_strtoll(priority_str) ELSE 0]

ComponentsContext(p, node) ==
    LET priority_str == xmlGetProp(node, "priority") IN
    [p EXCEPT !.origin = xmlGetProp(node, "origin"),
              !.media_baseurl = xmlGetProp(node, "media_baseurl"),
              !.default_priority = IF priority_str # NULL
                                   THEN g_ascii_strtoll(priority_str) ELSE @]

(***************************************************************************)
(* The entry points, as functions of the private state.                    *)
(***************************************************************************)
FAILED == "AS_METADATA_ERROR_FAILED"
UNEXPECTED_FORMAT_KIND == "AS_METADATA_ERROR_UNEXPECTED_FORMAT_KIND"

(* what the bytes behind a string pointer read as: the string while it   *)
(* is live; after g_free the old bytes, an empty string or other bytes   *)
Garbage == "\\x7f"

StringReads(str, status) ==
    IF status = "freed" THEN {str, "", Garbage} ELSE {str}

(* the private state as the decoders of one call read it *)
View(p, seen) == [p EXCEPT !.media_baseurl = seen]

(* the dispatch of as_xmldata_parse_upstream_data on the root element *)
UpstreamDispatchMut(p, root, seen) ==
    IF g_strcmp0(root.name, "component") = 0
    THEN as_xmldata_parse_component_node(View(p, seen), root, TRUE)
    ELSE IF g_strcmp0(root.name, "components") = 0
    THEN as_xmldata_parse_component_node(View(p, seen), root, TRUE)
    ELSE IF g_strcmp0(root.name, "application") = 0
    THEN as_xmldata_parse_component_node(View(p, seen), root, TRUE)
    ELSE [cpt |-> <<>>,
          error |-> GError(FAILED, "XML file does not contain valid AppStream data!")]

UpstreamDispatchStrict(p, root, seen) ==
    IF g_strcmp0(root.name, "components") = 0
    THEN [cpt |-> <<>>,
          error |-> GError(UNEXPECTED_FORMAT_KIND,
                           "Tried to parse distro metadata as upstream metadata.")]
    ELSE IF g_strcmp0(root.name, "component") = 0
    THEN as_xmldata_parse_component_node(View(p, seen), root, FALSE)
    ELSE IF g_strcmp0(root.name, "application") = 0
    THEN as_xmldata_parse_component_node(View(p, seen), root, FALSE)
    ELSE [cpt |-> <<>>,
          error |-> GError(FAILED, "XML file does not contain valid AppStream data!")]

UpstreamDispatch(p, root, seen) ==
    IF g_strcmp0(root.name, "components") = 0
    THEN [cpt |-> <<>>,
          error |-> GError(UNEXPECTED_FORMAT_KIND,
                           "Tried to parse distro metadata as upstream metadata.")]
    ELSE IF g_strcmp0(root.name, "component") = 0
    THEN as_xmldata_parse_component_node(View(p, seen), root, TRUE)
    ELSE IF g_strcmp0(root.name, "application") = 0
    THEN as_xmldata_parse_component_node(View(p, seen), root, TRUE)
    ELSE [cpt |-> <<>>,
          error |-> GError(FAILED, "XML file does not contain valid AppStream data!")]

(* what a parse entry point does before it looks at the root element:    *)
(* <<>> when it goes on, else the error it returns with                  *)
UpstreamEarlyReturnMut(d) ==
    IF d.kind = "null" THEN <<NoError>>
    ELSE IF d.kind = "malformed" THEN <<GError(FAILED, "Could not parse XML!")>>
    ELSE IF d.kind = "empty" THEN <<NoError>>
    ELSE <<>>

UpstreamEarlyReturn(d) ==
    IF d.kind = "null" THEN <<NoError>>
    ELSE IF d.kind = "malformed" THEN <<GError(FAILED, "Could not parse XML!")>>
    ELSE IF d.kind = "empty"
    THEN <<GError(FAILED, "The XML document appears to be empty.")>>
    ELSE <<>>

DistroEarlyReturn(d) ==
    IF d.kind = "null" THEN <<NoError>>
    ELSE IF d.kind = "malformed" THEN <<GError(FAILED, "Could not parse XML!")>>
    ELSE IF d.kind = "empty" THEN <<GError(FAILED, "The XML document is empty.")>>
    ELSE <<>>

(* as_xmldata_parse_upstream_data: the private state it leaves, the      *)
(* component it returns (<<>>: NULL) and the error it sets               *)
as_xmldata_parse_upstream_data(p, d, seen) ==
    LET early == UpstreamEarlyReturn(d)
        p1 == [p EXCEPT !.mode = UPSTREAM]
        Return(r) == [priv |-> p1, cpt |-> r.cpt, error |-> r.error]
    IN IF early # <<>> THEN [priv |-> p, cpt |-> <<>>, error |-> early[1]]
       ELSE Return(UpstreamDispatch(p1, d.root, seen))

(* the private state with which as_xmldata_parse_distro_data decodes *)
DistroContextMut(p, d) ==
    IF DistroEarlyReturn(d) # <<>> THEN p
    ELSE ComponentsContext([p EXCEPT !.mode = DISTRO], d.root)

DistroContext(p, d) ==
    IF DistroEarlyReturn(d) # <<>> THEN p
    ELSE IF g_strcmp0(d.root.name, "components") = 0
    THEN ComponentsContext([p EXCEPT !.mode = DISTRO], d.root)
    ELSE [p EXCEPT !.mode = DISTRO]

(* the state of the string behind priv->media_baseurl after the head of  *)
(* as_xmldata_parse_components_node: the attribute string was freed      *)
DistroBaseurlStatus(m, d) ==
    IF DistroEarlyReturn(d) = <<>> /\ g_strcmp0(d.root.name, "components") = 0
    THEN IF xmlGetProp(d.root, "media_baseurl") = NULL THEN "null" ELSE "freed"
    ELSE m.baseurl

(* as_xmldata_parse_distro_data: null is a NULL array *)
as_xmldata_parse_distro_data(p, d, seen) ==
    LET early == DistroEarlyReturn(d)
        root == d.root
        Return(p1, cpts, err) == [priv |-> p1, null |-> FALSE, cpts |-> cpts, error |-> err]
        Collection(p1, coll) == Return(p1, coll.cpts, coll.error)
        Single(p1, one) == Return(p1, one.cpt, one.error)
        Decode(p1) ==
            IF g_strcmp0(root.name, "components") = 0
            THEN Collection(p1, ComponentsLoop(View(p1, seen), root.children, FALSE, <<>>))
            ELSE IF g_strcmp0(root.name, "component") = 0
            THEN Single(p1, as_xmldata_parse_component_node(View(p1, seen), root, TRUE))
            ELSE Return(p1, <<>>,
                        GError(FAILED, "XML file does not contain valid AppStream data!"))
    IN IF early # <<>>
       THEN [priv |-> p, null |-> TRUE, cpts |-> <<>>, error |-> early[1]]
       ELSE Decode(DistroContext(p, d))

(* as_xmldata_serialize_to_upstream *)
as_xmldata_serialize_to_upstream(p, cpt, perm) ==
    LET p1 == [p EXCEPT !.mode = UPSTREAM] IN
    [priv |-> p1,
     xmlstr |-> xmlDocDumpMemory(as_xmldata_component_to_node(p1, cpt, perm))]

(* as_xmldata_serialize_to_distro *)
SerializeToDistroMut(p, cpts, perm) ==
    LET p1 == [p EXCEPT !.mode = DISTRO]
        root == Elem("components",
                     <<Attr("version", "0.8")>>
                     \o (IF p1.origin # NULL THEN <<Attr("origin", p1.origin)>> ELSE <<>>),
                     ComponentNodes(p1, cpts, perm))
    IN [priv |-> p1, xmlstr |-> xmlDocDumpMemory(root)]

as_xmldata_serialize_to_distro(p, cpts, perm) ==
    LET p1 == [p EXCEPT !.mode = DISTRO]
        root == Elem("components",
                     <<Attr("version", "0.8")>>
                     \o (IF p1.origin # NULL THEN <<Attr("origin", p1.origin)>> ELSE <<>>),
                     ComponentNodes(p1, cpts, perm))
    IN IF Len(cpts) = 0 THEN [priv |-> p, xmlstr |-> NULL]
       ELSE [priv |-> p1, xmlstr |-> xmlDocDumpMemory(root)]

(***************************************************************************)
(* The inputs of the model: arguments of as_xmldata_initialize, documents  *)
(* (as parsed trees) and components to serialize.                          *)
(***************************************************************************)
Locales == {"C", "de_DE", "ALL"}
Origins == {NULL, "os"}
MediaBaseurls == {NULL, "http://m/"}
Priorities == 0..MaxPriority

E(name, children) == Elem(name, <<>>, children)
T(name, s) == TextElem(name, <<>>, s)

ValidChildren(id) == <<T("id", id), Text("\n"), T("name", "N"), T("summary", "S")>>
InvalidChildren == <<T("name", "N")>>

ValidCpt(id) == E("component", ValidChildren(id))
InvalidCpt == E("component", InvalidChildren)

RootNames == {"component", "application", "components", "foo"}

RootDocs ==
    {NullData, MalformedDoc, EmptyDoc}
    \cup {TreeDoc(E(r, ValidChildren("a"))) : r \in RootNames}
    \cup {TreeDoc(E(r, InvalidChildren)) : r \in {"component", "application"}}

CollChildren == {ValidCpt("a"), ValidCpt("b"), InvalidCpt}

CollDocs ==
    {TreeDoc(E("components", kids)) :
        kids \in UNION {[1..n -> CollChildren] : n \in 0..MaxChildren}}

MediaCpt ==
    E("component",
      <<T("id", "m"),
        TextElem("icon", <<Attr("type", "remote")>>, "i.png"),
        E("screenshots",
          <<E("screenshot",
              <<TextElem("image", <<Attr("width", "64"), Attr("height", "48")>>, "a.png")>>)>>)>>)

OptAttr(name, values) == {<<>>} \cup {<<Attr(name, v)>> : v \in values}

CollAttrs ==
    {a \o b \o c : a \in OptAttr("origin", {"o2"}),
                   b \in OptAttr("media_baseurl", {"http://b"}),
                   c \in OptAttr("priority", {IntToStr(MaxPriority)})}

MediaDocs ==
    {TreeDoc(Elem("components", attrs, <<MediaCpt>>)) : attrs \in CollAttrs}
    \cup {TreeDoc(MediaCpt)}

Dates == {"2020-01-01", "2020-01-02T03:04:05", "yesterday"}
Timestamps == {"1600000000", "86400"}

ReleaseDoc(attrs) ==
    TreeDoc(E("component",
              <<T("id", "r"),
                E("releases",
                  <<Elem("release", <<Attr("version", "1.0")>> \o attrs,
                         <<TextElem("checksum", <<Attr("type", "sha256")>>, "abc"),
                           TextElem("size", <<Attr("type", "download")>>, "42")>>)>>)>>))

ReleaseDocs ==
    {ReleaseDoc(d \o t) : d \in OptAttr("date", Dates), t \in OptAttr("timestamp", Timestamps)}
    \cup {ReleaseDoc(t \o d) : d \in OptAttr("date", {"2020-01-01"}),
                               t \in OptAttr("timestamp", {"86400"})}

Widths == {"0", "64"}
Heights == {"0", "48"}

GoodImage ==
    TextElem("image", <<Attr("type", "thumbnail"), Attr("width", "32"), Attr("height", "24")>>,
             "t.png")

ImageDoc(attrs, more) ==
    TreeDoc(E("component",
              <<T("id", "s"),
                E("screenshots",
                  <<E("screenshot", <<TextElem("image", attrs, "a.png")>> \o more)>>)>>))

ImageDocs ==
    {ImageDoc(w \o h, more) : w \in OptAttr("width", Widths),
                              h \in OptAttr("height", Heights),
                              more \in {<<>>, <<GoodImage>>}}

ProvidesNames ==
    {"library", "binary", "font", "modalias", "python2", "python3", "firmware", "dbus", "codec"}
ProvidesTypes == {"runtime", "flashed", "system", "user", "session", "bogus"}

ProvidesDoc(kids) == TreeDoc(E("component", <<T("id", "p"), E("provides", kids)>>))

ProvidesDocs ==
    {ProvidesDoc(<<TextElem(n, t, "x.bin")>>) :
        n \in {"firmware", "dbus", "codec", "library"}, t \in OptAttr("type", ProvidesTypes)}
    \cup {ProvidesDoc(<<TextElem(n, <<>>, "x")>>) : n \in ProvidesNames}
    \cup {ProvidesDoc(<<TextElem("firmware", <<Attr("type", "flashed")>>, "f.bin"),
                        Text("\n"),
                        TextElem("dbus", <<>>, "org.d"),
                        TextElem("python3", <<>>, "mod"),
                        TextElem("dbus", <<Attr("type", "session")>>, "org.s"),
                        TextElem("firmware", <<Attr("type", "bogus")>>, "g.bin"),
                        TextElem("binary", <<>>, "foo")>>)}

(* elements with a kind in their type attribute: bundle, icon, checksum,  *)
(* size, followed by further elements                                     *)
EnumDoc(b, i, c, s) ==
    TreeDoc(E("component",
              <<T("id", "e"),
                TextElem("bundle", b, "bid"),
                TextElem("icon", i, "ic"),
                E("releases",
                  <<Elem("release", <<Attr("version", "2.0")>>,
                         <<TextElem("checksum", c, "abc"),
                           TextElem("size", s, "42"),
                           T("location", "http://l")>>)>>),
                T("project_license", "MIT")>>))

EnumDocs ==
    {EnumDoc(b, i, <<Attr("type", "sha1")>>, <<Attr("type", "installed")>>) :
        b \in OptAttr("type", {"limba", "xdg-app", "bogus"}),
        i \in OptAttr("type", {"stock", "bogus"})}
    \cup {EnumDoc(<<Attr("type", "limba")>>, <<Attr("type", "cached")>>, c, s) :
        c \in OptAttr("type", {"sha256", "bogus"}),
        s \in OptAttr("type", {"download", "bogus"})}

(* components with package names and compulsory-for-desktop entries, *)
(* with an id (valid) or without one                                 *)
PkgKids ==
    <<T("pkgname", "p1"), T("compulsory_for_desktop", "GNOME"), Text("\n"),
      T("pkgname", " p2 "), T("compulsory_for_desktop", "KDE")>>

PkgCpt(ids) == E("component", [k \in 1..Len(ids) |-> T("id", ids[k])] \o PkgKids)

PkgDocs ==
    {TreeDoc(PkgCpt(ids)) : ids \in {<<>>, <<"k">>}}
    \cup {TreeDoc(Elem("components", attrs, kids)) :
            attrs \in {<<>>, <<Attr("origin", "o2"), Attr("priority", IntToStr(MaxPriority))>>},
            kids \in {<<PkgCpt(<<"k">>), PkgCpt(<<"l">>)>>,
                      <<PkgCpt(<<"k">>), PkgCpt(<<>>), PkgCpt(<<"l">>)>>}}

(* upstream descriptions: paragraphs and a list in several languages *)
DescKids ==
    <<T("p", "Hello"), Text("\n"), TextElem("p", <<LangAttr("de")>>, "Hallo"),
      T("p", "World"), TextElem("p", <<LangAttr("fr")>>, "Salut"),
      Elem("ul", <<LangAttr("de_DE")>>, <<T("li", "eins")>>)>>

DescDocs ==
    {TreeDoc(E("component", <<T("id", "t"), E("description", kids)>>)) :
        kids \in {DescKids, <<T("p", "Hello")>>, <<>>}}

(* a type attribute on the component element and on its id element *)
KindDocs ==
    {TreeDoc(Elem("component", ct, <<TextElem("id", it, "y"), T("name", "N")>>)) :
        ct \in OptAttr("type", {"generic", "font", "bogus"}),
        it \in OptAttr("type", {"desktop", "bogus"})}

(* collections whose priority is one that as_xmldata_initialize is never *)
(* given here, with an origin, and a collection without attributes       *)
PriorityDocs ==
    {TreeDoc(Elem("components", attrs, <<ValidCpt("q")>>)) :
        attrs \in {<<>>, <<Attr("origin", "o3"), Attr("priority", "-3")>>}}

Docs ==
    PriorityDocs \cup PkgDocs \cup DescDocs \cup KindDocs \cup RootDocs \cup CollDocs \cup MediaDocs \cup ReleaseDocs \cup ImageDocs \cup ProvidesDocs
    \cup EnumDocs

(* elements with an optional xml:lang, for as_xmldata_get_node_locale *)
LangTags == {"de", "de_DE", "fr", "C", "ALL"}

LocaleNodes ==
    {TextElem("name", a, "N") : a \in {<<>>} \cup {<<LangAttr(t)>> : t \in LangTags}}

(* components handed to the serializers: ASCII text, one locale ("C") *)
BaseCpt(id) ==
    [as_component_new EXCEPT
       !.kind = "desktop", !.id = id, !.active_locale = "C",
       !.name = TableSet(EmptyTable, "C", "N"),
       !.summary = TableSet(EmptyTable, "C", "S"),
       !.pkgnames = <<"pkg">>, !.compulsory_for_desktops = <<>>]

AnImage == [width |-> 64, height |-> 48, kind |-> "source", url |-> "http://x/a.png"]

AScreenshot ==
    [as_screenshot_new EXCEPT !.kind = "default", !.active_locale = "C",
                              !.caption = TableSet(EmptyTable, "C", "Cap"),
                              !.images = <<AnImage>>]

ARelease ==
    [as_release_new EXCEPT !.version = "1.0", !.active_locale = "C",
                           !.timestamp = 1577934245, !.urgency = "high",
                           !.locations = <<"http://x/d">>,
                           !.checksums = TableSet(EmptyTable, "sha256", "abc"),
                           !.sizes = TableSet(EmptyTable, "download", 42)]

CptPlain == BaseCpt("a")

CptRich ==
    [BaseCpt("b") EXCEPT
       !.developer_name = TableSet(EmptyTable, "C", "Dev"),
       !.extends = <<"base">>,
       !.categories = <<"Game">>, !.keywords = <<"k1", "k2">>,
       !.urls = TableSet(EmptyTable, "homepage", "http://x"),
       !.icons = <<[as_icon_new EXCEPT !.kind = "stock", !.name = "ic"]>>,
       !.bundles = TableSet(EmptyTable, "limba", "bid"),
       !.screenshots = <<AScreenshot>>,
       !.releases = <<ARelease>>]

CptProvides == [BaseCpt("c") EXCEPT !.provided = <<ProvidedItem("library", "libfoo.so")>>]

CptLanguages == [BaseCpt("d") EXCEPT !.languages = TableSet(EmptyTable, "C", 80)]

CptDescription ==
    [BaseCpt("e") EXCEPT !.description = TableSet(EmptyTable, "C", "<p>Hello</p>")]

CptTranslated ==
    [BaseCpt("f") EXCEPT
       !.name = TableSet(TableSet(EmptyTable, "C", "N"), "de_DE", "Nde"),
       !.description = TableSet(TableSet(EmptyTable, "C", "<p>Hi</p><ul><li>one</li></ul>"),
                                "de_DE", "<p>Hallo</p><ol><li>eins</li><li>zwei</li></ol>")]

(* a component whose optional values are absent or empty *)
CptSparse ==
    [BaseCpt("g") EXCEPT
       !.keywords = <<>>, !.categories = <<>>,
       !.screenshots = <<[as_screenshot_new EXCEPT !.active_locale = "C",
                                                   !.images = <<AnImage>>]>>,
       !.releases = <<[as_release_new EXCEPT !.active_locale = "C",
                                             !.timestamp = 86400]>>]

SingleLocaleCpts == {CptPlain, CptRich, CptProvides, CptLanguages, CptDescription}

SerCpts == SingleLocaleCpts \cup {CptTranslated, CptSparse}

SerLists ==
    UNION {[1..n -> {CptPlain, CptRich, CptProvides}] : n \in 0..MaxCptsOut}
    \cup {<<c>> : c \in SerCpts}

(* the orders in which a hash table may hand out the locale keys *)
TableOrders == {<<"C", "de_DE">>, <<"de_DE", "C">>}

(***************************************************************************)
(* The state machine.  op names the call that returned last ("idle": its   *)
(* results were handed back); data, cptsIn are its inputs, ret, error and  *)
(* xmlstr its outputs.                                                     *)
(***************************************************************************)
NoRet == [null |-> TRUE, cpts |-> <<>>, lang |-> NULL]

Init ==
    /\ priv = as_xmldata_init
    /\ mem = [baseurl |-> "null"]
    /\ op = "idle"
    /\ data = NullData
    /\ fromXml = FALSE
    /\ cptsIn = <<>>
    /\ ret = NoRet
    /\ error = NoError
    /\ xmlstr = NULL

(* as_xmldata_initialize *)
Initialize(locale, origin, media_baseurl, priority) ==
    /\ op = "idle"
    /\ mem.baseurl # "freed"
    /\ priv' = [priv EXCEPT !.locale = locale,
                            !.locale_short = StrsplitFirst(locale, "_"),
                            !.origin = origin,
                            !.media_baseurl = media_baseurl,
                            !.default_priority = priority]
    /\ mem' = [mem EXCEPT !.baseurl = IF media_baseurl = NULL THEN "null" ELSE "live"]
    /\ UNCHANGED <<op, data, fromXml, cptsIn, ret, error, xmlstr>>

(* as_xmldata_initialize when priv->media_baseurl was freed before: the  *)
(* second g_free of the string either goes unnoticed or ends the process *)
InitializeFreed(locale, origin, media_baseurl, priority) ==
    /\ op = "idle"
    /\ mem.baseurl = "freed"
    /\ \/ /\ priv' = [priv EXCEPT !.locale = locale,
                                  !.locale_short = StrsplitFirst(locale, "_"),
                                  !.origin = origin,
                                  !.media_baseurl = media_baseurl,
                                  !.default_priority = priority]
          /\ mem' = [mem EXCEPT !.baseurl = IF media_baseurl = NULL THEN "null" ELSE "live"]
          /\ UNCHANGED op
       \/ /\ op' = "aborted"
          /\ UNCHANGED <<priv, mem>>
    /\ UNCHANGED <<data, fromXml, cptsIn, ret, error, xmlstr>>

(* as_xmldata_get_node_locale *)
GetNodeLocale(node) ==
    /\ op = "idle"
    /\ op' = "get_node_locale"
    /\ data' = TreeDoc(node)
    /\ \E lang \in {as_xmldata_get_node_locale(priv, node)} :
           ret' = [NoRet EXCEPT !.lang = lang, !.null = lang = NULL]
    /\ UNCHANGED <<priv, mem, fromXml, cptsIn, error, xmlstr>>

(* as_xmldata_parse_upstream_data *)
ParseUpstreamData(d, fx) ==
    \E seen \in StringReads(priv.media_baseurl, mem.baseurl) :
      \E r \in {as_xmldata_parse_upstream_data(priv, d, seen)} :
        /\ op' = "parse_upstream_data"
        /\ data' = d
        /\ fromXml' = fx
        /\ priv' = r.priv
        /\ ret' = [NoRet EXCEPT !.null = r.cpt = <<>>, !.cpts = r.cpt]
        /\ error' = r.error
        /\ UNCHANGED <<mem, cptsIn, xmlstr>>

(* as_xmldata_parse_distro_data *)
ParseDistroData(d, fx) ==
    \E status \in {DistroBaseurlStatus(mem, d)} :
     \E seen \in StringReads(DistroContext(priv, d).media_baseurl, status) :
      \E r \in {as_xmldata_parse_distro_data(priv, d, seen)} :
        /\ op' = "parse_distro_data"
        /\ data' = d
        /\ fromXml' = fx
        /\ priv' = r.priv
        /\ mem' = [mem EXCEPT !.baseurl = status]
        /\ ret' = [NoRet EXCEPT !.null = r.null, !.cpts = r.cpts]
        /\ error' = r.error
        /\ UNCHANGED <<cptsIn, xmlstr>>

(* as_xmldata_serialize_to_upstream *)
SerializeToUpstream(cpt, perm) ==
    /\ op = "idle"
    /\ \E r \in {as_xmldata_serialize_to_upstream(priv, cpt, perm)} :
       /\ op' = "serialize_to_upstream"
       /\ cptsIn' = <<cpt>>
       /\ priv' = r.priv
       /\ xmlstr' = r.xmlstr
       /\ ret' = [NoRet EXCEPT !.null = r.xmlstr = NULL]
       /\ UNCHANGED <<mem, data, fromXml, error>>

(* as_xmldata_serialize_to_distro *)
SerializeToDistro(cpts, perm) ==
    /\ op = "idle"
    /\ \E r \in {as_xmldata_serialize_to_distro(priv, cpts, perm)} :
       /\ op' = "serialize_to_distro"
       /\ cptsIn' = cpts
       /\ priv' = r.priv
       /\ xmlstr' = r.xmlstr
       /\ ret' = [NoRet EXCEPT !.null = r.xmlstr = NULL]
       /\ UNCHANGED <<mem, data, fromXml, error>>

(* as_xmldata_set_parser_mode *)
SetParserMode(mode) ==
    /\ op = "idle"
    /\ priv.mode # mode
    /\ priv' = [priv EXCEPT !.mode = mode]
    /\ UNCHANGED <<mem, op, data, fromXml, cptsIn, ret, error, xmlstr>>

(* the caller is done with what the last call returned (transfer full) *)
ReleaseResults ==
    /\ op \notin {"idle", "aborted", "finalized"}
    /\ op' = "idle"
    /\ data' = NullData
    /\ fromXml' = FALSE
    /\ cptsIn' = <<>>
    /\ ret' = NoRet
    /\ error' = NoError
    /\ xmlstr' = NULL
    /\ UNCHANGED <<priv, mem>>

(* as_xmldata_finalize: the last reference to the object is dropped and  *)
(* the strings of the private state are freed.  When the string behind   *)
(* priv->media_baseurl was freed before, this g_free of it either goes   *)
(* unnoticed or ends the process                                         *)
Finalize ==
    /\ op = "idle"
    /\ \/ /\ op' = "finalized"
          /\ mem' = [mem EXCEPT !.baseurl = IF priv.media_baseurl = NULL
                                            THEN "null" ELSE "freed"]
       \/ /\ mem.baseurl = "freed"
          /\ op' = "aborted"
          /\ UNCHANGED mem
    /\ UNCHANGED <<priv, data, fromXml, cptsIn, ret, error, xmlstr>>

(* the documents a caller parses: one of its own, or the text that the    *)
(* serializer named by after has just returned                            *)
ParseInputs(after) ==
    IF op = "idle" THEN Docs
    ELSE IF op = after THEN {xmlParseDoc(xmlstr)}
    ELSE {}

Next ==
    \/ \E l \in Locales, o \in Origins, b \in MediaBaseurls, q \in Priorities :
          Initialize(l, o, b, q)
    \/ \E l \in Locales, o \in Origins, b \in MediaBaseurls, q \in Priorities :
          InitializeFreed(l, o, b, q)
    \/ \E n \in LocaleNodes : GetNodeLocale(n)
    \/ \E d \in ParseInputs("serialize_to_upstream") : ParseUpstreamData(d, op # "idle")
    \/ \E d \in ParseInputs("serialize_to_distro") : ParseDistroData(d, op # "idle")
    \/ \E c \in SerCpts, perm \in TableOrders : SerializeToUpstream(c, perm)
    \/ \E cs \in SerLists, perm \in TableOrders : SerializeToDistro(cs, perm)
    \/ \E m \in {UPSTREAM, DISTRO} : SetParserMode(m)
    \/ ReleaseResults
    \/ Finalize

Spec == Init /\ [][Next]_vars

(***************************************************************************)
(* Reading the input document of the last call, for the properties below.  *)
(***************************************************************************)
ChildElems(node, name) ==
    SelectSeq(node.children, LAMBDA n : n.type = "element" /\ n.name = name)

HasAttr(n, a) == \E i \in 1..Len(n.attrs) : n.attrs[i].name = a

AttrVal(n, a) ==
    n.attrs[CHOOSE i \in 1..Len(n.attrs) :
               n.attrs[i].name = a /\ \A j \in 1..(i - 1) : n.attrs[j].name # a].value

(* the text directly inside an element *)
TextOf(n) == IF n.children = <<>> THEN "" ELSE n.children[1].content

HasId(c) == \E k \in 1..Len(c.children) :
               c.children[k].type = "element" /\ c.children[k].name = "id"
               /\ TextOf(c.children[k]) # ""

IdOf(c) == TextOf(ChildElems(c, "id")[1])

ParseOps == {"parse_upstream_data", "parse_distro_data"}

(* the last call decoded the root element as one component *)
DecodedRoot ==
    /\ data.kind = "tree"
    /\ \/ op = "parse_upstream_data" /\ data.root.name \in {"component", "application"}
       \/ op = "parse_distro_data" /\ data.root.name = "component"

(* the last call was a distro parse of a collection *)
DecodedCollection ==
    op = "parse_distro_data" /\ data.kind = "tree" /\ data.root.name = "components"

CollKids == ChildElems(data.root, "component")

InvalidKids == {i \in 1..Len(CollKids) : ~HasId(CollKids[i])}

FirstInvalid == CHOOSE i \in InvalidKids : \A j \in InvalidKids : i <= j

(* the element children of a node, and lists built from lists *)
ElemChildren(n) == SelectSeq(n.children, LAMBDA c : c.type = "element")

RECURSIVE Concat(_)
Concat(seqs) == IF seqs = <<>> THEN <<>> ELSE Head(seqs) \o Concat(Tail(seqs))

(* the elements named inner inside the children of node named outer *)
Nested2(node, outer, inner) ==
    LET outers == ChildElems(node, outer) IN
    Concat([k \in 1..Len(outers) |-> ChildElems(outers[k], inner)])

(* the same for the root of the input document *)
Nested(outer, inner) == Nested2(data.root, outer, inner)

(***************************************************************************)
(* C1: a component with single-locale ASCII fields that is serialized and   *)
(* then parsed by the matching parser on the same context comes back equal *)
(* field by field: the listed fields of the component, the images of its   *)
(* screenshots and the listed fields of its releases.                      *)
(***************************************************************************)
ComponentFields ==
    {"id", "kind", "name", "summary", "developer_name", "description", "pkgnames",
     "extends", "compulsory_for_desktops", "categories", "keywords", "urls", "icons",
     "provided", "bundles", "languages"}

ReleaseFields ==
    {"version", "timestamp", "urgency", "locations", "checksums", "sizes", "description"}

SameComponent(got, c) ==
    /\ \A f \in ComponentFields : got[f] = c[f]
    /\ Len(got.screenshots) = Len(c.screenshots)
    /\ \A k \in 1..Len(c.screenshots) : got.screenshots[k].images = c.screenshots[k].images
    /\ Len(got.releases) = Len(c.releases)
    /\ \A k \in 1..Len(c.releases) :
          \A f \in ReleaseFields : got.releases[k][f] = c.releases[k][f]

RoundTrip ==
    (fromXml /\ op \in ParseOps /\ \A i \in 1..Len(cptsIn) : cptsIn[i] \in SingleLocaleCpts)
    => /\ Len(ret.cpts) = Len(cptsIn)
       /\ \A i \in 1..Len(cptsIn) : SameComponent(ret.cpts[i], cptsIn[i])

(***************************************************************************)
(* C2: as_xmldata_get_node_locale is a function of the lang attribute and  *)
(* the locale / short locale of the context: no attribute gives "C"; with  *)
(* locale "ALL" a tag gives itself; a tag equal to the locale or to the    *)
(* text of the locale before its first "_" gives the locale; every other   *)
(* tag gives none.  The call leaves the private state as it was.           *)
(***************************************************************************)
IsShortForm(tag, locale) ==
    \E i \in 1..Len(locale) :
        /\ CharAt(locale, i) = "_"
        /\ \A j \in 1..(i - 1) : CharAt(locale, j) # "_"
        /\ tag = SubSeq(locale, 1, i - 1)

ExpectedLocale(node, locale) ==
    IF ~HasAttr(node, "lang") THEN "C"
    ELSE IF locale = "ALL" THEN AttrVal(node, "lang")
    ELSE IF AttrVal(node, "lang") = locale THEN locale
    ELSE IF IsShortForm(AttrVal(node, "lang"), locale) THEN locale
    ELSE NULL

LocaleResolutionIsPure ==
    /\ [](op = "get_node_locale" => ret.lang = ExpectedLocale(data.root, priv.locale))
    /\ [][op' = "get_node_locale" /\ op # "get_node_locale" => priv' = priv /\ mem' = mem]_vars

LocaleResolutionWitness ==
    /\ op = "get_node_locale"
    /\ priv.locale = "de_DE"
    /\ HasAttr(data.root, "lang") /\ AttrVal(data.root, "lang") = "de"
    /\ ret.lang = "de_DE"

(***************************************************************************)
(* C3: in a distro parse of a components root, the first child component   *)
(* that is not valid (has no id) makes the call return the error "Invalid  *)
(* component", and no sibling after it is decoded: the result holds only   *)
(* the components before it.                                               *)
(***************************************************************************)
InvalidCollectionAbort ==
    DecodedCollection /\ InvalidKids # {} =>
        /\ error = GError(FAILED, "Invalid component")
        /\ Len(ret.cpts) = FirstInvalid - 1
        /\ \A j \in 1..Len(ret.cpts) : ret.cpts[j].id = IdOf(CollKids[j])

InvalidCollectionAbortWitness ==
    /\ DecodedCollection
    /\ Len(CollKids) = 3 /\ InvalidKids = {2}
    /\ error.code = FAILED
    /\ Len(ret.cpts) = 1

(***************************************************************************)
(* C4 (as stated): in a distro parse of a components root an invalid child *)
(* is dropped and decoding goes on, so every valid component of the        *)
(* document, before and after the invalid one, is in the result.           *)
(***************************************************************************)
SkipInvalidInCollections ==
    DecodedCollection =>
        \A i \in 1..Len(CollKids) :
            HasId(CollKids[i]) =>
                \E j \in 1..Len(ret.cpts) : ret.cpts[j].id = IdOf(CollKids[i])

(***************************************************************************)
(* C4 (amended): an invalid child is not in the output and ends the        *)
(* decoding: the result is, in document order, exactly the components      *)
(* before the first invalid child (all of them when none is invalid), and  *)
(* an error is set exactly when a child is invalid.                        *)
(***************************************************************************)
ValidPrefixLen == IF InvalidKids = {} THEN Len(CollKids) ELSE FirstInvalid - 1

InvalidEndsCollection ==
    DecodedCollection =>
        /\ Len(ret.cpts) = ValidPrefixLen
        /\ \A j \in 1..ValidPrefixLen :
              HasId(CollKids[j]) /\ ret.cpts[j].id = IdOf(CollKids[j])
        /\ (error # NoError) = (InvalidKids # {})

InvalidEndsCollectionWitness ==
    /\ DecodedCollection
    /\ Len(CollKids) = 3 /\ InvalidKids = {2}
    /\ HasId(CollKids[3])
    /\ Len(ret.cpts) = 1 /\ ret.cpts[1].id = IdOf(CollKids[1])
    /\ error # NoError

(***************************************************************************)
(* C5: as_xmldata_parse_upstream_data sets the mode to upstream and then    *)
(* looks at the name of the root: component or application is decoded into *)
(* one component; components gives no component and the error              *)
(* UNEXPECTED_FORMAT_KIND; any other root gives no component and the       *)
(* general error.                                                          *)
(***************************************************************************)
UpstreamRootDispatch ==
    (op = "parse_upstream_data" /\ data.kind = "tree") =>
        /\ priv.mode = UPSTREAM
        /\ IF data.root.name \in {"component", "application"}
           THEN /\ ~ret.null /\ Len(ret.cpts) = 1
                /\ HasId(data.root) => ret.cpts[1].id = IdOf(data.root)
           ELSE IF data.root.name = "components"
           THEN ret.null /\ ret.cpts = <<>> /\ error.code = UNEXPECTED_FORMAT_KIND
           ELSE /\ ret.null /\ ret.cpts = <<>>
                /\ error = GError(FAILED, "XML file does not contain valid AppStream data!")

UpstreamRootDispatchWitness ==
    /\ op = "parse_upstream_data" /\ data.kind = "tree"
    /\ data.root.name = "components" /\ Len(CollKids) > 0
    /\ ret.null /\ error.code = UNEXPECTED_FORMAT_KIND
    /\ priv.mode = UPSTREAM

(***************************************************************************)
(* C6 (as stated): a lone component document whose record is not valid     *)
(* makes as_xmldata_parse_upstream_data return an error and no component.  *)
(***************************************************************************)
LoneRootInvalid ==
    /\ op = "parse_upstream_data" /\ data.kind = "tree"
    /\ data.root.name \in {"component", "application"}
    /\ ~HasId(data.root)

InvalidLoneComponentFatal ==
    LoneRootInvalid => ret.null /\ error # NoError

(***************************************************************************)
(* C6 (amended): as_xmldata_parse_upstream_data decodes its root with      *)
(* allow_invalid = TRUE: a lone component whose record is not valid is     *)
(* returned as it was decoded, and no error is set.                        *)
(***************************************************************************)
InvalidLoneComponentReturned ==
    LoneRootInvalid =>
        /\ error = NoError
        /\ ~ret.null /\ Len(ret.cpts) = 1
        /\ ~as_component_is_valid(ret.cpts[1])

InvalidLoneComponentReturnedWitness ==
    /\ LoneRootInvalid /\ data.root.name = "component"
    /\ error = NoError
    /\ Len(ret.cpts) = 1 /\ ret.cpts[1].id = NULL

(***************************************************************************)
(* C7 (as stated): a document without root element makes                   *)
(* as_xmldata_parse_upstream_data return no component and no error, and    *)
(* makes as_xmldata_parse_distro_data fail with an error.                  *)
(***************************************************************************)
EmptyDocumentSilentUpstream ==
    data.kind = "empty" =>
        /\ op = "parse_upstream_data" => ret.null /\ error = NoError
        /\ op = "parse_distro_data" => error # NoError

(***************************************************************************)
(* C7 (amended): a document without root element makes both parsers set    *)
(* the general error and return nothing; only absent text (data == NULL)   *)
(* makes them return nothing without an error.  Neither case changes the   *)
(* mode.                                                                   *)
(***************************************************************************)
EmptyDocumentIsError ==
    /\ [](op \in ParseOps /\ data.kind = "empty" =>
             ret.null /\ ret.cpts = <<>> /\ error.code = FAILED)
    /\ [](op \in ParseOps /\ data.kind = "null" =>
             ret.null /\ ret.cpts = <<>> /\ error = NoError)
    /\ [][op' \in ParseOps /\ data'.kind \in {"empty", "null"} => priv' = priv]_vars

EmptyDocumentIsErrorWitness ==
    /\ op = "parse_upstream_data" /\ data.kind = "empty"
    /\ ret.null
    /\ error = GError(FAILED, "The XML document appears to be empty.")

(***************************************************************************)
(* C8: in a release element the date attribute is applied first and the    *)
(* timestamp attribute after it: with both, the release has the value of   *)
(* timestamp; with only a valid date, that date in epoch seconds; with     *)
(* neither (or only a date that is no ISO-8601 date), no timestamp (0).    *)
(***************************************************************************)
DateEpoch ==
    ("2020-01-01" :> 1577836800) @@ ("2020-01-02T03:04:05" :> 1577934245)
    @@ ("2020-01-02T03:04:05Z" :> 1577934245) @@ ("1970-01-02T00:00:00Z" :> 86400)

TimestampValue ==
    ("1600000000" :> 1600000000) @@ ("86400" :> 86400) @@ ("1577934245" :> 1577934245)

ExpectedTimestamp(rel) ==
    IF HasAttr(rel, "timestamp") THEN TimestampValue[AttrVal(rel, "timestamp")]
    ELSE IF HasAttr(rel, "date") /\ AttrVal(rel, "date") \in DOMAIN DateEpoch
    THEN DateEpoch[AttrVal(rel, "date")]
    ELSE 0

ReleaseElems == Nested("releases", "release")

TimestampPrecedence ==
    DecodedRoot =>
        /\ Len(ret.cpts[1].releases) = Len(ReleaseElems)
        /\ \A k \in 1..Len(ReleaseElems) :
              ret.cpts[1].releases[k].timestamp = ExpectedTimestamp(ReleaseElems[k])

TimestampPrecedenceWitness ==
    /\ DecodedRoot /\ ~fromXml
    /\ Len(ReleaseElems) = 1
    /\ HasAttr(ReleaseElems[1], "date") /\ AttrVal(ReleaseElems[1], "date") = "2020-01-01"
    /\ HasAttr(ReleaseElems[1], "timestamp")
    /\ AttrVal(ReleaseElems[1], "timestamp") = "1600000000"
    /\ ret.cpts[1].releases[1].timestamp = 1600000000

(***************************************************************************)
(* C9: an image element of a screenshot is discarded by a distro parse     *)
(* whenever its width or its height is absent or zero; an upstream parse   *)
(* keeps every image, an absent width or height being stored as 0.         *)
(***************************************************************************)
DimensionValue ==
    ("0" :> 0) @@ ("24" :> 24) @@ ("32" :> 32) @@ ("48" :> 48) @@ ("64" :> 64)

ExpectedDimension(img, a) == IF HasAttr(img, a) THEN DimensionValue[AttrVal(img, a)] ELSE 0

ImageElems ==
    LET shots == Nested("screenshots", "screenshot") IN
    Concat([k \in 1..Len(shots) |-> ChildElems(shots[k], "image")])

ExpectedKept ==
    SelectSeq(ImageElems,
              LAMBDA img : \/ op = "parse_upstream_data"
                           \/ /\ ExpectedDimension(img, "width") # 0
                              /\ ExpectedDimension(img, "height") # 0)

DecodedImages ==
    Concat([k \in 1..Len(ret.cpts[1].screenshots) |-> ret.cpts[1].screenshots[k].images])

DistroImageValidity ==
    DecodedRoot =>
        /\ Len(DecodedImages) = Len(ExpectedKept)
        /\ \A k \in 1..Len(ExpectedKept) :
              /\ DecodedImages[k].width = ExpectedDimension(ExpectedKept[k], "width")
              /\ DecodedImages[k].height = ExpectedDimension(ExpectedKept[k], "height")

DistroImageValidityWitness ==
    /\ DecodedRoot /\ op = "parse_distro_data"
    /\ Len(ImageElems) = 2
    /\ HasAttr(ImageElems[1], "width") /\ AttrVal(ImageElems[1], "width") = "64"
    /\ ~HasAttr(ImageElems[1], "height")
    /\ Len(DecodedImages) = 1 /\ DecodedImages[1].width = 32

(***************************************************************************)
(* C10: each child of provides named library, binary, font, modalias,      *)
(* python2 or python3 adds one provided item of that kind; firmware adds   *)
(* firmware-runtime / firmware-flashed for type runtime / flashed; dbus    *)
(* adds dbus-system for type system and dbus-user for type user or         *)
(* session; firmware or dbus with another or no type, and a child of any   *)
(* other name, adds nothing.                                               *)
(***************************************************************************)
PlainProvides == {"library", "binary", "font", "modalias", "python2", "python3"}

TypeOf(n) == IF HasAttr(n, "type") THEN AttrVal(n, "type") ELSE NULL

ExpectedProvided(n) ==
    IF n.name \in PlainProvides THEN <<[kind |-> n.name, item |-> TextOf(n)]>>
    ELSE IF n.name = "firmware" /\ TypeOf(n) = "runtime"
    THEN <<[kind |-> "firmware-runtime", item |-> TextOf(n)]>>
    ELSE IF n.name = "firmware" /\ TypeOf(n) = "flashed"
    THEN <<[kind |-> "firmware-flashed", item |-> TextOf(n)]>>
    ELSE IF n.name = "dbus" /\ TypeOf(n) = "system"
    THEN <<[kind |-> "dbus-system", item |-> TextOf(n)]>>
    ELSE IF n.name = "dbus" /\ TypeOf(n) \in {"user", "session"}
    THEN <<[kind |-> "dbus-user", item |-> TextOf(n)]>>
    ELSE <<>>

ProvidesElems ==
    LET provides == ChildElems(data.root, "provides") IN
    Concat([k \in 1..Len(provides) |-> ElemChildren(provides[k])])

ProvidedItemDecoding ==
    DecodedRoot =>
        ret.cpts[1].provided =
            Concat([k \in 1..Len(ProvidesElems) |-> ExpectedProvided(ProvidesElems[k])])

ProvidedItemDecodingWitness ==
    /\ DecodedRoot
    /\ Len(ProvidesElems) = 6
    /\ ProvidesElems[1].name = "firmware" /\ TypeOf(ProvidesElems[1]) = "flashed"
    /\ ProvidesElems[5].name = "firmware" /\ TypeOf(ProvidesElems[5]) = "bogus"
    /\ Len(ret.cpts[1].provided) = 4
    /\ ret.cpts[1].provided[1] = [kind |-> "firmware-flashed", item |-> "f.bin"]
    /\ ret.cpts[1].provided[3].kind = "dbus-user"

(***************************************************************************)
(* C11: an element whose type attribute is absent or names no known kind   *)
(* (bundle, icon, checksum, size, typed provided item) adds nothing to the *)
(* component or release: nothing is stored under the kinds unknown / none, *)
(* no error is set, and the elements after it are decoded.                 *)
(***************************************************************************)
KnownType(n, kinds) == HasAttr(n, "type") /\ AttrVal(n, "type") \in kinds

ReleaseKids(name) ==
    Concat([k \in 1..Len(ReleaseElems) |-> ChildElems(ReleaseElems[k], name)])

DecodedReleaseKeys(field) ==
    UNION {DOMAIN ret.cpts[1].releases[k][field] : k \in 1..Len(ret.cpts[1].releases)}

UnknownEnumDropped ==
    (DecodedRoot /\ ~fromXml) =>
        LET cpt == ret.cpts[1]
            bundles == ChildElems(data.root, "bundle")
            icons == ChildElems(data.root, "icon")
            licenses == ChildElems(data.root, "project_license")
        IN /\ error = NoError
           /\ KIND_UNKNOWN \notin DOMAIN cpt.bundles
           /\ (DOMAIN cpt.bundles # {})
                 <=> \E k \in 1..Len(bundles) : KnownType(bundles[k], {"limba", "xdg-app"})
           /\ Len(cpt.icons) =
                 Len(SelectSeq(icons,
                       LAMBDA n : KnownType(n, {"stock", "cached", "local", "remote"})))
           /\ \A k \in 1..Len(cpt.icons) : cpt.icons[k].kind # KIND_UNKNOWN
           /\ DecodedReleaseKeys("checksums") =
                 {AttrVal(n, "type") : n \in {m \in SeqRange(ReleaseKids("checksum")) :
                                                 KnownType(m, {"sha1", "sha256"})}}
           /\ DecodedReleaseKeys("sizes") =
                 {AttrVal(n, "type") : n \in {m \in SeqRange(ReleaseKids("size")) :
                                                 KnownType(m, {"download", "installed"})}}
           /\ \A k \in 1..Len(cpt.provided) : cpt.provided[k].kind # KIND_UNKNOWN
           /\ Len(cpt.provided) =
                 Len(Concat([k \in 1..Len(ProvidesElems) |->
                               ExpectedProvided(ProvidesElems[k])]))
           /\ (licenses # <<>>) => cpt.project_license = TextOf(licenses[1])

(***************************************************************************)
(* C12: a bundle element whose type attribute is a recognized bundle kind  *)
(* (limba, xdg-app) stores its id under the kind limba, whatever the       *)
(* recognized kind was.                                                    *)
(***************************************************************************)
BundleElems == ChildElems(data.root, "bundle")

BundleKindCoercion ==
    (DecodedRoot /\ ~fromXml) =>
        \A k \in 1..Len(BundleElems) :
            (/\ KnownType(BundleElems[k], {"limba", "xdg-app"})
             /\ \A j \in (k + 1)..Len(BundleElems) :
                    ~KnownType(BundleElems[j], {"limba", "xdg-app"}))
            => /\ "limba" \in DOMAIN ret.cpts[1].bundles
               /\ ret.cpts[1].bundles["limba"] = TextOf(BundleElems[k])
               /\ "xdg-app" \notin DOMAIN ret.cpts[1].bundles

BundleKindCoercionWitness ==
    /\ DecodedRoot /\ ~fromXml
    /\ Len(BundleElems) = 1
    /\ TypeOf(BundleElems[1]) = "xdg-app"
    /\ ret.cpts[1].bundles = TableSet(EmptyTable, "limba", "bid")

(***************************************************************************)
(* C13: the serializers emit no element and no attribute for a value that  *)
(* is absent or empty: no attribute with an empty value; no caption for a  *)
(* screenshot without caption; no description for a release without        *)
(* description; no version attribute for a release without version; no     *)
(* keywords / categories container for an empty list.                      *)
(***************************************************************************)
SerializeOps == {"serialize_to_upstream", "serialize_to_distro"}

(* the component elements of the text the last serializer call returned *)
WrittenComponents ==
    LET Pick(root) ==
            IF root.name = "components" THEN ChildElems(root, "component") ELSE <<root>>
    IN Pick(xmlParseDoc(xmlstr).root)

RECURSIVE EmptyAttrs(_)
EmptyAttrs(n) ==
    {n.attrs[i].name : i \in {j \in 1..Len(n.attrs) : n.attrs[j].value = ""}}
    \cup UNION {EmptyAttrs(n.children[k]) : k \in 1..Len(n.children)}

NoText(str) == str = NULL \/ str = ""

NoList(strv) == strv = NullStrv \/ strv = <<>>

OmitsEmpty(cpt, node) ==
    LET shots == Nested2(node, "screenshots", "screenshot")
        rels == Nested2(node, "releases", "release")
    IN /\ EmptyAttrs(node) = {}
       /\ Len(shots) = Len(cpt.screenshots)
       /\ \A k \in 1..Len(shots) :
             NoText(LocalizedGet(cpt.screenshots[k].caption, cpt.screenshots[k].active_locale))
             => ChildElems(shots[k], "caption") = <<>>
       /\ Len(rels) = Len(cpt.releases)
       /\ \A k \in 1..Len(rels) :
             /\ NoText(LocalizedGet(cpt.releases[k].description,
                                    cpt.releases[k].active_locale))
                => ChildElems(rels[k], "description") = <<>>
             /\ NoText(cpt.releases[k].version) => ~HasAttr(rels[k], "version")
       /\ NoList(cpt.keywords) => ChildElems(node, "keywords") = <<>>
       /\ NoList(cpt.categories) => ChildElems(node, "categories") = <<>>

OmitEmptyPolicy ==
    (op \in SerializeOps /\ xmlstr # NULL) =>
        LET Holds(nodes) ==
                /\ Len(nodes) = Len(cptsIn)
                /\ \A i \in 1..Len(cptsIn) : OmitsEmpty(cptsIn[i], nodes[i])
        IN Holds(WrittenComponents)

(***************************************************************************)
(* C14: as_xmldata_serialize_to_distro returns nothing for an empty list;  *)
(* for a non-empty list it returns one document whose root is components   *)
(* with version="0.8", with an origin attribute exactly when the origin of *)
(* the context is set, and with one component child per input component,   *)
(* in the order of the input.                                              *)
(***************************************************************************)
DistroDocument(doc) ==
    /\ doc.kind = "tree"
    /\ doc.root.name = "components"
    /\ HasAttr(doc.root, "version") /\ AttrVal(doc.root, "version") = "0.8"
    /\ HasAttr(doc.root, "origin") <=> (priv.origin # NULL)
    /\ HasAttr(doc.root, "origin") => AttrVal(doc.root, "origin") = priv.origin
    /\ Len(doc.root.attrs) = (IF priv.origin # NULL THEN 2 ELSE 1)
    /\ ElemChildren(doc.root) = ChildElems(doc.root, "component")
    /\ Len(ElemChildren(doc.root)) = Len(cptsIn)
    /\ \A i \in 1..Len(cptsIn) : IdOf(ElemChildren(doc.root)[i]) = cptsIn[i].id

DistroSerialization ==
    (op = "serialize_to_distro") =>
        IF cptsIn = <<>> THEN xmlstr = NULL /\ ret.null
        ELSE xmlstr # NULL /\ DistroDocument(xmlParseDoc(xmlstr))

DistroSerializationWitness ==
    /\ op = "serialize_to_distro"
    /\ Len(cptsIn) = 2 /\ cptsIn[1].id = "b" /\ cptsIn[2].id = "a"
    /\ priv.origin = "os"
    /\ xmlstr # NULL
    /\ AttrVal(xmlParseDoc(xmlstr).root, "origin") = "os"

(***************************************************************************)
(* C15: when the components root has a media_baseurl attribute, the url of *)
(* every image and of every remote icon decoded from the collection is     *)
(* that base URL joined with the content of the element; when the context  *)
(* has no media base URL, the url is the content of the element.           *)
(***************************************************************************)
JoinedUrl(base, content) == base \o "/" \o content

RemoteIcons(c) ==
    SelectSeq(ChildElems(c, "icon"), LAMBDA n : TypeOf(n) = "remote")

(* the image elements of c that the parser keeps *)
ImagesOf(c) ==
    SelectSeq(Concat([k \in 1..Len(Nested2(c, "screenshots", "screenshot")) |->
                        ChildElems(Nested2(c, "screenshots", "screenshot")[k], "image")]),
              LAMBDA img : \/ op = "parse_upstream_data"
                           \/ /\ ExpectedDimension(img, "width") # 0
                              /\ ExpectedDimension(img, "height") # 0)

DecodedImagesOf(cpt) ==
    Concat([k \in 1..Len(cpt.screenshots) |-> cpt.screenshots[k].images])

DecodedRemoteIcons(cpt) == SelectSeq(cpt.icons, LAMBDA icon : icon.kind = "remote")

(* the media urls of the decoded component cpt are those of its element c *)
MediaUrls(cpt, c, Url(_)) ==
    /\ Len(DecodedRemoteIcons(cpt)) = Len(RemoteIcons(c))
    /\ \A k \in 1..Len(RemoteIcons(c)) :
          DecodedRemoteIcons(cpt)[k].url = Url(TextOf(RemoteIcons(c)[k]))
    /\ Len(DecodedImagesOf(cpt)) = Len(ImagesOf(c))
    /\ \A k \in 1..Len(ImagesOf(c)) :
          DecodedImagesOf(cpt)[k].url = Url(TextOf(ImagesOf(c)[k]))

MediaBaseurlJoin ==
    /\ (DecodedCollection /\ ~fromXml /\ error = NoError
         /\ HasAttr(data.root, "media_baseurl"))
       => /\ Len(ret.cpts) = Len(CollKids)
          /\ \A i \in 1..Len(CollKids) :
                MediaUrls(ret.cpts[i], CollKids[i],
                          LAMBDA t : JoinedUrl(AttrVal(data.root, "media_baseurl"), t))
    /\ (DecodedCollection /\ ~fromXml /\ error = NoError
         /\ ~HasAttr(data.root, "media_baseurl"))
       => /\ Len(ret.cpts) = Len(CollKids)
          /\ \A i \in 1..Len(CollKids) :
                MediaUrls(ret.cpts[i], CollKids[i], LAMBDA t : t)
    /\ (DecodedRoot /\ ~fromXml /\ priv.media_baseurl = NULL)
       => MediaUrls(ret.cpts[1], data.root, LAMBDA t : t)

(***************************************************************************)
(* C16: for a component with descriptions in k non-empty locales, an       *)
(* upstream serialization has exactly one description element, without    *)
(* xml:lang, whose children are the markup of the locales, each top-level  *)
(* child of a locale other than "C" carrying xml:lang of that locale, a    *)
(* ul / ol carrying it on each list item and not on the list; a distro     *)
(* serialization has k description elements, one per locale, with xml:lang *)
(* on the description exactly when the locale is not "C" and the markup of *)
(* the locale as children, no child carrying xml:lang.                     *)
(***************************************************************************)
MarkupNodes(markup) == xmlParseDoc("<root>" \o markup \o "</root>").root.children

WithLang(n, locale) ==
    IF n.type = "element" THEN [n EXCEPT !.attrs = Append(@, LangAttr(locale))] ELSE n

Localized(n, locale) ==
    IF locale = "C" THEN n
    ELSE IF n.name \in {"ul", "ol"}
    THEN [n EXCEPT !.children = [k \in 1..Len(n.children) |-> WithLang(n.children[k], locale)]]
    ELSE WithLang(n, locale)

LocalizedMarkup(markup, locale) ==
    [k \in 1..Len(MarkupNodes(markup)) |-> Localized(MarkupNodes(markup)[k], locale)]

DescLocales(cpt, perm) == SelectSeq(perm, LAMBDA l : l \in DOMAIN cpt.description)

UpstreamDescription(cpt, node, perm) ==
    LET descs == ChildElems(node, "description")
        keys == DescLocales(cpt, perm)
    IN IF keys = <<>> THEN descs = <<>>
       ELSE /\ Len(descs) = 1
            /\ descs[1].attrs = <<>>
            /\ descs[1].children =
                  Concat([j \in 1..Len(keys) |->
                            LocalizedMarkup(cpt.description[keys[j]], keys[j])])

DistroDescription(cpt, node, perm) ==
    LET descs == ChildElems(node, "description")
        keys == DescLocales(cpt, perm)
    IN /\ Len(descs) = Len(keys)
       /\ \A j \in 1..Len(keys) :
             /\ descs[j].attrs =
                   (IF keys[j] = "C" THEN <<>> ELSE <<LangAttr(keys[j])>>)
             /\ descs[j].children = MarkupNodes(cpt.description[keys[j]])

DescriptionPlacement ==
    (op \in SerializeOps /\ xmlstr # NULL) =>
        LET Holds(nodes) ==
                \A i \in 1..Len(cptsIn) :
                    \E perm \in TableOrders :
                        IF op = "serialize_to_upstream"
                        THEN UpstreamDescription(cptsIn[i], nodes[i], perm)
                        ELSE DistroDescription(cptsIn[i], nodes[i], perm)
        IN Holds(WrittenComponents)

DescriptionPlacementWitness ==
    /\ op = "serialize_to_upstream" /\ xmlstr # NULL
    /\ cptsIn = <<CptTranslated>>
    /\ Len(ChildElems(WrittenComponents[1], "description")) = 1
    /\ \E k \in 1..4 :
          LET n == ChildElems(WrittenComponents[1], "description")[1].children[k] IN
          /\ n.name = "ol" /\ n.attrs = <<>>
          /\ n.children[2].attrs = <<LangAttr("de_DE")>>

(***************************************************************************)
(* C17: no parse or serialize entry point changes the locale or the short  *)
(* locale of the context; as_xmldata_parse_upstream_data and the two       *)
(* serializers change no field other than mode, and so does                *)
(* as_xmldata_parse_distro_data on a root that is not components; on a     *)
(* components root it sets origin, media base URL and priority from the    *)
(* attributes of the root before the first component is decoded (every     *)
(* returned component carries them), and nothing changes them afterwards.  *)
(***************************************************************************)
EntryOps == ParseOps \cup SerializeOps

OnlyModeChanged(p, q) == [q EXCEPT !.mode = p.mode] = p

RootAttr(a) == IF HasAttr(data.root, a) THEN AttrVal(data.root, a) ELSE NULL

(* the number that a priority attribute of the input documents stands for *)
PriorityValue(str) == IF str = "-3" THEN 0 - 3 ELSE MaxPriority

ContextFrameStep ==
    (op' # op /\ op' \in EntryOps) =>
        /\ priv'.locale = priv.locale /\ priv'.locale_short = priv.locale_short
        /\ (op' \in SerializeOps \cup {"parse_upstream_data"})
              => OnlyModeChanged(priv, priv') /\ mem' = mem
        /\ (op' = "parse_distro_data" /\ ~DecodedCollection')
              => OnlyModeChanged(priv, priv') /\ mem' = mem
        /\ (op' = "parse_distro_data" /\ DecodedCollection')
              => /\ priv'.mode = DISTRO
                 /\ priv'.origin = RootAttr("origin")'
                 /\ priv'.media_baseurl = RootAttr("media_baseurl")'
                 /\ priv'.default_priority =
                       (IF HasAttr(data'.root, "priority")
                        THEN PriorityValue(AttrVal(data'.root, "priority"))
                        ELSE priv.default_priority)
                 /\ \A i \in 1..Len(ret'.cpts) :
                       /\ ret'.cpts[i].origin = priv'.origin
                       /\ ret'.cpts[i].priority = priv'.default_priority

ContextFrame == [][ContextFrameStep]_vars

ContextFrameWitness ==
    /\ DecodedCollection /\ ~fromXml
    /\ HasAttr(data.root, "origin") /\ HasAttr(data.root, "priority")
    /\ priv.locale = "de_DE" /\ priv.locale_short = "de"
    /\ priv.origin = "o2" /\ priv.default_priority = MaxPriority
    /\ Len(ret.cpts) = 1
    /\ ret.cpts[1].origin = "o2" /\ ret.cpts[1].priority = MaxPriority

(***************************************************************************)
(* C18: as_xmldata_parse_component_node returns a component and sets no    *)
(* error, or returns none and sets an error.  With allow_invalid (a root   *)
(* component of either parser) it always returns the component; without it *)
(* (the children of a components root) it returns the component exactly    *)
(* when the decoded record has an id.  A returned component has the        *)
(* package names and the compulsory-for-desktop entries of its element in  *)
(* document order, and the origin and the priority of the context.         *)
(***************************************************************************)
StrippedText(n) == IF TextOf(n) = " p2 " THEN "p2" ELSE TextOf(n)

TextsOf(c, name) ==
    [k \in 1..Len(ChildElems(c, name)) |-> StrippedText(ChildElems(c, name)[k])]

Finalized(cpt, c) ==
    /\ cpt.pkgnames = TextsOf(c, "pkgname")
    /\ cpt.compulsory_for_desktops = TextsOf(c, "compulsory_for_desktop")
    /\ cpt.origin = priv.origin
    /\ cpt.priority = priv.default_priority

DecoderOutcome ==
    /\ DecodedRoot =>
          /\ Len(ret.cpts) = 1 /\ error = NoError
          /\ Finalized(ret.cpts[1], data.root)
    /\ DecodedCollection =>
          /\ (error = NoError) <=> (InvalidKids = {})
          /\ (error # NoError) => (error = GError(FAILED, "Invalid component"))
          /\ Len(ret.cpts) = (IF InvalidKids = {} THEN Len(CollKids) ELSE FirstInvalid - 1)
          /\ \A i \in 1..Len(ret.cpts) :
                HasId(CollKids[i]) /\ Finalized(ret.cpts[i], CollKids[i])

DecoderOutcomeWitness ==
    /\ DecodedCollection /\ ~fromXml
    /\ Len(CollKids) = 3 /\ InvalidKids = {2}
    /\ HasAttr(data.root, "origin")
    /\ error = GError(FAILED, "Invalid component")
    /\ Len(ret.cpts) = 1
    /\ ret.cpts[1].pkgnames = <<"p1", "p2">>
    /\ ret.cpts[1].compulsory_for_desktops = <<"GNOME", "KDE">>
    /\ ret.cpts[1].origin = "o2" /\ ret.cpts[1].priority = MaxPriority

(***************************************************************************)
(* C19: an upstream parse groups the children of a description element by  *)
(* their resolved locale; the value stored under a key is the markup       *)
(* <name>content</name> of the children resolving to that key, in document *)
(* order, with a newline between consecutive entries and none before the   *)
(* first or after the last; a child resolving to no locale adds nothing.   *)
(***************************************************************************)
ChildMarkup(n) == "<" \o n.name \o ">" \o xmlNodeGetContent(n) \o "</" \o n.name \o ">"

RECURSIVE JoinedMarkup(_)
JoinedMarkup(nodes) ==
    IF nodes = <<>> THEN ""
    ELSE ChildMarkup(Head(nodes))
         \o (IF Tail(nodes) = <<>> THEN "" ELSE "\n" \o JoinedMarkup(Tail(nodes)))

DescriptionKids == Nested2(data.root, "description", "p") \o Nested2(data.root, "description", "ul")

DescriptionKeys ==
    {ExpectedLocale(DescriptionKids[k], priv.locale) : k \in 1..Len(DescriptionKids)} \ {NULL}

UpstreamDescriptionGrouping ==
    (DecodedRoot /\ ~fromXml /\ op = "parse_upstream_data"
     /\ Len(ChildElems(data.root, "description")) = 1) =>
        /\ DOMAIN ret.cpts[1].description = DescriptionKeys
        /\ \A key \in DescriptionKeys :
              ret.cpts[1].description[key] =
                  JoinedMarkup(SelectSeq(ElemChildren(ChildElems(data.root, "description")[1]),
                                         LAMBDA n : ExpectedLocale(n, priv.locale) = key))

(***************************************************************************)
(* C20: the kind of a component is taken from the type attribute of its id *)
(* element only in an upstream parse of a component element that has no   *)
(* type attribute; with a type attribute on the component (type="generic"  *)
(* included), or in a distro parse, the kind is that of the component      *)
(* element, whatever the attributes of the id element are.                 *)
(***************************************************************************)
KnownComponentKinds ==
    {"generic", "desktop", "font", "codec", "inputmethod", "addon", "firmware"}

KindOfElem(n) ==
    IF ~HasAttr(n, "type") THEN "generic"
    ELSE IF AttrVal(n, "type") \in KnownComponentKinds THEN AttrVal(n, "type")
    ELSE KIND_UNKNOWN

LegacyKindFallback ==
    (DecodedRoot /\ Len(ChildElems(data.root, "id")) = 1) =>
        ret.cpts[1].kind =
            (IF op = "parse_upstream_data" /\ ~HasAttr(data.root, "type")
             THEN KindOfElem(ChildElems(data.root, "id")[1])
             ELSE KindOfElem(data.root))
(***************************************************************************)
(* C20 (amended): the kind is taken from the type attribute of the id      *)
(* element exactly in an upstream parse of a component element whose own   *)
(* kind is generic, that is without a type attribute or with               *)
(* type="generic"; with any other type attribute on the component, or in a *)
(* distro parse, the kind of the component element is kept.                *)
(***************************************************************************)
LegacyKindFallbackOnGeneric ==
    (DecodedRoot /\ Len(ChildElems(data.root, "id")) = 1) =>
        ret.cpts[1].kind =
            (IF op = "parse_upstream_data" /\ KindOfElem(data.root) = "generic"
             THEN KindOfElem(ChildElems(data.root, "id")[1])
             ELSE KindOfElem(data.root))

LegacyKindFallbackOnGenericWitness ==
    /\ DecodedRoot /\ ~fromXml /\ op = "parse_upstream_data"
    /\ TypeOf(data.root) = "generic"
    /\ Len(ChildElems(data.root, "id")) = 1
    /\ TypeOf(ChildElems(data.root, "id")[1]) = "desktop"
    /\ ret.cpts[1].kind = "desktop"

(***************************************************************************)
(* C21: every component decoded from a components collection carries the   *)
(* priority attribute of the root when there is one, and otherwise the     *)
(* priority that the context held before the call; that priority changes   *)
(* only when as_xmldata_initialize stores its argument and when a          *)
(* collection with a priority attribute is parsed, so that the priority of *)
(* an earlier document persists.  The origin of the context and of the     *)
(* components is the origin attribute of the current root, none when the   *)
(* root has no such attribute.                                             *)
(***************************************************************************)
CollectionParsed == op' # op /\ op' = "parse_distro_data" /\ DecodedCollection'

InitializeCalled ==
    \E l \in Locales, o \in Origins, b \in MediaBaseurls, q \in Priorities :
        Initialize(l, o, b, q) \/ InitializeFreed(l, o, b, q)

PriorityPersistsStep ==
    /\ CollectionParsed =>
          /\ priv'.origin = RootAttr("origin")'
          /\ \A i \in 1..Len(ret'.cpts) :
                /\ ret'.cpts[i].origin = RootAttr("origin")'
                /\ ret'.cpts[i].priority =
                      (IF HasAttr(data'.root, "priority")
                       THEN PriorityValue(AttrVal(data'.root, "priority"))
                       ELSE priv.default_priority)
    /\ (priv'.default_priority # priv.default_priority) =>
          \/ InitializeCalled
          \/ CollectionParsed /\ HasAttr(data'.root, "priority")

PriorityPersists == [][PriorityPersistsStep]_vars

PriorityPersistsWitness ==
    /\ DecodedCollection /\ ~fromXml
    /\ ~HasAttr(data.root, "priority") /\ ~HasAttr(data.root, "origin")
    /\ priv.locale = "de_DE"
    /\ Len(ret.cpts) >= 1
    /\ ret.cpts[1].priority = 0 - 3
    /\ ret.cpts[1].origin = NULL
    /\ priv.origin = NULL /\ priv.default_priority = 0 - 3

(***************************************************************************)
(* C22: while the context exists, the string behind its media_baseurl      *)
(* field is none or a live string; no parse builds a url from a string     *)
(* that was freed, and no call frees a string a second time (which may end *)
(* the process).                                                           *)
(***************************************************************************)
(* the last call decoded an image or a remote icon, whose url it builds *)
(* from the string behind priv->media_baseurl                           *)
BuiltMediaUrl ==
    /\ op \in ParseOps
    /\ \E i \in 1..Len(ret.cpts) :
          \/ DecodedRemoteIcons(ret.cpts[i]) # <<>>
          \/ DecodedImagesOf(ret.cpts[i]) # <<>>

ReadFreedBaseurl == BuiltMediaUrl /\ mem.baseurl = "freed"

FreedTwice == op = "aborted"

MediaBaseurlOwned ==
    /\ (op # "finalized") => (mem.baseurl \in {"null", "live"})
    /\ ~ReadFreedBaseurl
    /\ ~FreedTwice

(***************************************************************************)
(* C23: what as_xmldata_parse_distro_data returns together with an error.  *)
(* When a child of a components root is not valid, it is a collection that *)
(* holds, in document order, exactly the components before the first       *)
(* invalid child.  When the root is neither components nor component, it   *)
(* is an empty collection.  When the text is not well-formed or has no     *)
(* root element, it is no collection at all.                               *)
(***************************************************************************)
ReturnedIds == [j \in 1..Len(ret.cpts) |-> ret.cpts[j].id]

IdsBefore(n) == [j \in 1..(n - 1) |-> IdOf(CollKids[j])]

PartialResultOnAbort ==
    op = "parse_distro_data" =>
        /\ (DecodedCollection /\ InvalidKids # {}) =>
              /\ error # NoError
              /\ ~ret.null
              /\ \A j \in 1..(FirstInvalid - 1) : HasId(CollKids[j])
              /\ ReturnedIds = IdsBefore(FirstInvalid)
        /\ (data.kind = "tree" /\ data.root.name \notin {"components", "component"}) =>
              /\ error = GError(FAILED, "XML file does not contain valid AppStream data!")
              /\ ~ret.null
              /\ ret.cpts = <<>>
        /\ (data.kind \in {"malformed", "empty"}) =>
              /\ error.code = FAILED
              /\ ret.null
              /\ ret.cpts = <<>>

PartialResultOnAbortWitness ==
    /\ op = "parse_distro_data" /\ ~fromXml
    /\ DecodedCollection
    /\ Len(CollKids) = 3 /\ InvalidKids = {3}
    /\ error = GError(FAILED, "Invalid component")
    /\ ~ret.null
    /\ Len(ret.cpts) = 2
    /\ ReturnedIds = <<IdOf(CollKids[1]), IdOf(CollKids[2])>>
====
